---- MODULE Spec2Model ----
(***************************************************************************)
(* A model of the session orchestration core of interview-ai:              *)
(*   - common/circuit_breaker.py   CircuitBreaker                          *)
(*   - agents/python/orchestrator_agent.py   InterviewStateMachine and the *)
(*     ADK OrchestratorAgent                                               *)
(*   - backends/.../agents/orchestrator.py   the backend OrchestratorAgent *)
(* Each part has its own specification over the shared variables; a part's *)
(* actions leave the other parts' variables unchanged.                     *)
(***************************************************************************)
EXTENDS Integers, Sequences, FiniteSets, TLC

VARIABLES
    cb,        \* the CircuitBreaker object: its fields, config and metrics
    now,       \* int(time.time() * 1000), in abstract clock units
    obs,       \* history of the breaker's calls (observation only)
    agent,     \* the orchestrator object: which implementation, its settings
    sessions,  \* session id -> object (self.sessions / self.active_sessions)
    heap,      \* object -> the session object's fields
    calls,     \* handler calls suspended at an await, with their locals
    outbox,    \* messages queued or sent by the orchestrator, in order
    store,     \* session id -> last persisted snapshot
    step,      \* what the last handler step did (observation only)
    pure       \* inputs and results of the pure-function specification

cbVars == <<cb, now, obs>>
sessVars == <<agent, sessions, heap, calls, outbox, store, step>>
vars == <<cb, now, obs, agent, sessions, heap, calls, outbox, store, step, pure>>

(***************************************************************************)
(* Bounds of the model.                                                    *)
(***************************************************************************)
MaxThreshold == 2      \* failure_threshold ranges over 1..MaxThreshold
MaxQuota == 2          \* half_open_requests ranges over 1..MaxQuota
MaxTime == 4           \* the clock runs from 1 to MaxTime
MaxCalls == 3          \* execute calls per behaviour
MaxSessions == 1       \* session ids in the orchestrator's dictionary
MaxObjects == 2        \* session objects alive at once
MaxInflight == 2       \* handler calls suspended at an await at once
MaxQueue == 5          \* messages waiting in the message queue
MaxInterventions == 1  \* directives recorded on one session
MaxTransitions == 4    \* transitions recorded on one backend session
MaxClock == 2          \* the clock runs from 1 to MaxClock under a session
MaxAdkEvents == 4      \* counted steps of one behaviour of the ADK orchestrator
MaxOrchEvents == 5     \* counted steps of one behaviour of the backend orchestrator
MaxChecks == 2         \* calls of check_gating_conditions on one session and scores map
MaxBreakers == 2       \* breakers in one registry
MaxRegCalls == 2       \* execute calls on one breaker of a registry
MaxSends == 4          \* _send_message calls of one behaviour of the queue

(***************************************************************************)
(* CircuitBreaker: common/circuit_breaker.py                               *)
(***************************************************************************)
None == -1             \* Python's None in an Optional[int] field

CircuitState == {"CLOSED", "OPEN", "HALF_OPEN"}

\* CircuitBreakerConfig, with the durations scaled to clock units.  The
\* monitoring window is either shorter or longer than the reset timeout.
CircuitBreakerConfig ==
    [failure_threshold : 1..MaxThreshold,
     reset_timeout : {2},
     half_open_requests : 1..MaxQuota,
     monitoring_window : {1, 4}]

CircuitBreakerMetrics ==
    [total_requests |-> 0, success_requests |-> 0, failure_requests |-> 0,
     timeouts |-> 0, circuit_open_time |-> None, consecutive_failures |-> 0]

\* CircuitBreaker.__init__
NewBreaker(config) ==
    [config |-> config, state |-> "CLOSED", failures |-> 0,
     last_failure_time |-> 0, half_open_count |-> 0,
     failure_window |-> <<>>, metrics |-> CircuitBreakerMetrics]

\* a window that keeps the failure that is exactly monitoring_window old
CleanFailureWindow_inclusive(b, t) ==
    LET cutoff == t - b.config.monitoring_window
        Keep(x) == x >= cutoff
    IN  [b EXCEPT !.failure_window = SelectSeq(@, Keep)]

\* _clean_failure_window at time t
CleanFailureWindow(b, t) ==
    LET cutoff == t - b.config.monitoring_window
        Keep(x) == x > cutoff
    IN  [b EXCEPT !.failure_window = SelectSeq(@, Keep)]

\* a reset that also starts the cumulative counters afresh
Reset_zeroing(b) ==
    [b EXCEPT !.state = "CLOSED", !.failures = 0, !.half_open_count = 0,
              !.failure_window = <<>>,
              !.metrics = CircuitBreakerMetrics]

\* _reset
Reset(b) ==
    [b EXCEPT !.state = "CLOSED", !.failures = 0, !.half_open_count = 0,
              !.failure_window = <<>>,
              !.metrics.consecutive_failures = 0,
              !.metrics.circuit_open_time = None]

ShouldOpenCircuit_strict(b) ==
    \/ b.metrics.consecutive_failures > b.config.failure_threshold
    \/ Len(b.failure_window) > b.config.failure_threshold

\* _should_open_circuit
ShouldOpenCircuit(b) ==
    \/ b.metrics.consecutive_failures >= b.config.failure_threshold
    \/ Len(b.failure_window) >= b.config.failure_threshold

\* _open_circuit at time t
OpenCircuit(b, t) ==
    [b EXCEPT !.state = "OPEN", !.metrics.circuit_open_time = t,
              !.half_open_count = 0]

ShouldAttemptReset_strict(b, t) ==
    IF b.metrics.circuit_open_time = None \/ b.metrics.circuit_open_time = 0
    THEN FALSE
    ELSE t - b.metrics.circuit_open_time > b.config.reset_timeout

ShouldAttemptReset_always(b, t) ==
    ~(b.metrics.circuit_open_time = None \/ b.metrics.circuit_open_time = 0)

\* _should_attempt_reset at time t ("not circuit_open_time" is true of None and 0)
ShouldAttemptReset(b, t) ==
    IF b.metrics.circuit_open_time = None \/ b.metrics.circuit_open_time = 0
    THEN FALSE
    ELSE t - b.metrics.circuit_open_time >= b.config.reset_timeout

OnSuccess_late(b, t) ==
    LET b1 == CleanFailureWindow(
                  [b EXCEPT !.failures = 0,
                            !.metrics.success_requests = @ + 1,
                            !.metrics.consecutive_failures = 0], t)
    IN  IF b1.state = "HALF_OPEN"
        THEN LET b2 == [b1 EXCEPT !.half_open_count = @ + 1]
             IN  IF b2.half_open_count > b2.config.half_open_requests
                 THEN Reset(b2) ELSE b2
        ELSE b1

\* _on_success at time t
OnSuccess(b, t) ==
    LET b1 == CleanFailureWindow(
                  [b EXCEPT !.failures = 0,
                            !.metrics.success_requests = @ + 1,
                            !.metrics.consecutive_failures = 0], t)
    IN  IF b1.state = "HALF_OPEN"
        THEN LET b2 == [b1 EXCEPT !.half_open_count = @ + 1]
             IN  IF b2.half_open_count >= b2.config.half_open_requests
                 THEN Reset(b2) ELSE b2
        ELSE b1

\* _on_failure at time t
OnFailure(b, t) ==
    LET b1 == [b EXCEPT !.failures = @ + 1,
                        !.metrics.failure_requests = @ + 1,
                        !.metrics.consecutive_failures = @ + 1,
                        !.last_failure_time = t,
                        !.failure_window = Append(@, t)]
        b2 == CleanFailureWindow(b1, t)
    IN  IF ShouldOpenCircuit(b2) THEN OpenCircuit(b2, t) ELSE b2

\* What execute hands back to its caller: a value or a raised exception.  An
\* exception's msg is the text it was built from, piece by piece.
OpOutcomes == {"ok", "raise", "timeout"}
FbOutcomes == {"ok", "raise"}
OpErrorText == "operation error"
FbErrorText == "fallback error"
TimeoutText == "Operation timed out after"
BothFailedText == "Both primary operation and fallback failed: "

Returned(from) == [kind |-> "value", from |-> from, msg |-> <<>>]
Raised(from, msg) == [kind |-> "error", from |-> from, msg |-> msg]

\* _execute_fallback: the fallback's value, or the exception built from the
\* fallback's error alone.
ExecuteFallback(fb) ==
    IF fb = "ok" THEN Returned("fallback")
    ELSE Raised("fallback", <<BothFailedText, FbErrorText>>)

\* an execute that fails fast whenever the circuit is open
ExecuteEnter_failfast(b, t) ==
    LET b1 == [b EXCEPT !.metrics.total_requests = @ + 1]
    IN  IF b1.state = "OPEN"
        THEN [b |-> b1, path |-> "fallback"]
        ELSE [b |-> b1, path |-> "attempt"]

\* execute, lines 78-87: count the request, then fail fast or go on.
ExecuteEnter(b, t) ==
    LET b1 == [b EXCEPT !.metrics.total_requests = @ + 1]
    IN  IF b1.state = "OPEN"
        THEN IF ShouldAttemptReset(b1, t)
             THEN [b |-> [b1 EXCEPT !.state = "HALF_OPEN", !.half_open_count = 0],
                   path |-> "attempt"]
             ELSE [b |-> b1, path |-> "fallback"]
        ELSE [b |-> b1, path |-> "attempt"]

\* execute, lines 89-109 (with _execute_with_timeout): the operation was
\* attempted at t and ended with outcome op at t1.
ExecuteLeave(b, op, fb, t1) ==
    IF op = "ok"
    THEN [b |-> OnSuccess(b, t1), fbInvoked |-> FALSE, result |-> Returned("operation")]
    ELSE LET bt == IF op = "timeout"
                   THEN [b EXCEPT !.metrics.timeouts = @ + 1] ELSE b
             bf == OnFailure(bt, t1)
             error == IF op = "timeout" THEN <<TimeoutText>> ELSE <<OpErrorText>>
         IN  IF bf.state = "OPEN"
             THEN [b |-> bf, fbInvoked |-> TRUE, result |-> ExecuteFallback(fb)]
             ELSE [b |-> bf, fbInvoked |-> FALSE, result |-> Raised("operation", error)]

\* execute as one call: entered at t0, the operation (if attempted) ends at t1.
Execute(b, op, fb, t0, t1) ==
    LET e == ExecuteEnter(b, t0)
    IN  IF e.path = "fallback"
        THEN [b |-> e.b, attempted |-> FALSE, fbInvoked |-> TRUE,
              result |-> ExecuteFallback(fb)]
        ELSE LET l == ExecuteLeave(e.b, op, fb, t1)
             IN  [b |-> l.b, attempted |-> TRUE, fbInvoked |-> l.fbInvoked,
                  result |-> l.result]

\* force_open at time t
ForceOpen(b, t) ==
    [b EXCEPT !.state = "OPEN", !.metrics.circuit_open_time = t]

\* force_close
ForceClose(b) == Reset(b)

(***************************************************************************)
(* Text.  A Python str is a sequence of one-character strings.             *)
(***************************************************************************)
UpperCase ==
    <<"A", "B", "C", "D", "E", "F", "G", "H", "I", "J", "K", "L", "M",
      "N", "O", "P", "Q", "R", "S", "T", "U", "V", "W", "X", "Y", "Z">>
LowerCase ==
    <<"a", "b", "c", "d", "e", "f", "g", "h", "i", "j", "k", "l", "m",
      "n", "o", "p", "q", "r", "s", "t", "u", "v", "w", "x", "y", "z">>

LowerChar(c) ==
    IF \E i \in 1..Len(UpperCase) : UpperCase[i] = c
    THEN LowerCase[CHOOSE i \in 1..Len(UpperCase) : UpperCase[i] = c]
    ELSE c

UpperChar(c) ==
    IF \E i \in 1..Len(LowerCase) : LowerCase[i] = c
    THEN UpperCase[CHOOSE i \in 1..Len(LowerCase) : LowerCase[i] = c]
    ELSE c

\* str.lower() and str.upper()
Lower(s) == [i \in 1..Len(s) |-> LowerChar(s[i])]
Upper(s) == [i \in 1..Len(s) |-> UpperChar(s[i])]

\* "sub in s" for two str
Contains(s, sub) ==
    \E i \in 0..(Len(s) - Len(sub)) :
        \A j \in 1..Len(sub) : s[i + j] = sub[j]

\* any(keyword in s for keyword in keywords)
ContainsAny(s, keywords) ==
    \E k \in 1..Len(keywords) : Contains(s, keywords[k])

(***************************************************************************)
(* InterviewStateMachine: agents/python/orchestrator_agent.py              *)
(***************************************************************************)
\* InterviewState, in the enum's declaration order
InterviewStateOrder ==
    <<"configuring", "scoping", "analysis", "solutioning", "metrics",
      "challenging", "report_generation", "end">>
InterviewState == {InterviewStateOrder[i] : i \in 1..Len(InterviewStateOrder)}
NoPhase == "none"      \* Python's None where a phase is optional

\* InterviewStateMachine.valid_transitions
ValidTransitions ==
    [configuring |-> {"scoping"},
     scoping |-> {"analysis", "challenging"},
     analysis |-> {"solutioning", "challenging"},
     solutioning |-> {"metrics", "challenging"},
     metrics |-> {"challenging"},
     challenging |-> {"report_generation"},
     report_generation |-> {"end"},
     end |-> {}]

\* InterviewStateMachine.semantic_triggers: per phase, the (target, phrases)
\* items in insertion order
SemanticTriggers ==
    [p \in InterviewState |->
        CASE p = "scoping" ->
               <<[target |-> "analysis",
                  keywords |-> <<<<"m", "o", "v", "e", " ", "o", "n", " ", "t", "o", " ", "t", "h", "e", " ", "u", "s", "e", "r", "s">>,
                               <<"u", "s", "e", "r", " ", "s", "e", "g", "m", "e", "n", "t", "s">>,
                               <<"p", "a", "i", "n", " ", "p", "o", "i", "n", "t", "s">>,
                               <<"u", "n", "d", "e", "r", "s", "t", "a", "n", "d", " ", "t", "h", "e", " ", "p", "r", "o", "b", "l", "e", "m">>>>]>>
          [] p = "analysis" ->
               <<[target |-> "solutioning",
                  keywords |-> <<<<"s", "o", "l", "u", "t", "i", "o", "n", " ", "I", " ", "p", "r", "o", "p", "o", "s", "e">>,
                               <<"r", "e", "c", "o", "m", "m", "e", "n", "d", "a", "t", "i", "o", "n">>,
                               <<"f", "e", "a", "t", "u", "r", "e", " ", "I", " ", "w", "o", "u", "l", "d", " ", "b", "u", "i", "l", "d">>,
                               <<"m", "y", " ", "a", "p", "p", "r", "o", "a", "c", "h", " ", "w", "o", "u", "l", "d", " ", "b", "e">>>>]>>
          [] p = "solutioning" ->
               <<[target |-> "metrics",
                  keywords |-> <<<<"m", "e", "a", "s", "u", "r", "e", " ", "s", "u", "c", "c", "e", "s", "s">>,
                               <<"K", "P", "I", "s">>,
                               <<"N", "o", "r", "t", "h", " ", "S", "t", "a", "r", " ", "m", "e", "t", "r", "i", "c">>,
                               <<"s", "u", "c", "c", "e", "s", "s", " ", "m", "e", "t", "r", "i", "c", "s">>>>]>>
          [] OTHER -> <<>>]

\* InterviewStateMachine.can_transition
CanTransition(from_state, to_state) ==
    IF from_state \in DOMAIN ValidTransitions
    THEN to_state \in ValidTransitions[from_state]
    ELSE FALSE

\* InterviewStateMachine.detect_semantic_transition: the response is lowered,
\* the configured phrases are compared as written.
DetectSemanticTransition(current_state, response) ==
    LET response_lower == Lower(response)
        triggers == SemanticTriggers[current_state]
        Hit(i) == ContainsAny(response_lower, triggers[i].keywords)
    IN  IF \E i \in 1..Len(triggers) : Hit(i)
        THEN triggers[CHOOSE i \in 1..Len(triggers) :
                          Hit(i) /\ \A j \in 1..(i - 1) : ~Hit(j)].target
        ELSE NoPhase

(***************************************************************************)
(* The breaker under its callers: execute calls that do not overlap,       *)
(* force_open, force_close and the passing of time.                        *)
(***************************************************************************)
NoCall ==
    [op |-> "none", pre |-> "CLOSED", elapsed |-> FALSE,
     at |-> "CLOSED", attempted |-> FALSE, outcome |-> "ok",
     fbInvoked |-> FALSE, fb |-> "ok", result |-> Returned("operation")]

ObsInit ==
    [last |-> NoCall, failRun |-> 0, failFrom |-> "CLOSED",
     succRun |-> 0, succFrom |-> "CLOSED", trials |-> 0]

\* The record of one execute call and the runs of calls it continues or ends.
ObserveExecute(o, b, op, fb, t0, r) ==
    LET e == ExecuteEnter(b, t0)
        failed == r.attempted /\ op # "ok"
        passed == r.attempted /\ op = "ok"
        entered == b.state = "OPEN" /\ e.b.state = "HALF_OPEN"
        base == IF entered THEN 0 ELSE o.trials
    IN  [last |-> [op |-> "execute", pre |-> b.state,
                   elapsed |-> /\ b.metrics.circuit_open_time # None
                               /\ t0 - b.metrics.circuit_open_time
                                      >= b.config.reset_timeout,
                   at |-> e.b.state, attempted |-> r.attempted, outcome |-> op,
                   fbInvoked |-> r.fbInvoked, fb |-> fb, result |-> r.result],
         failRun |-> IF failed THEN o.failRun + 1
                     ELSE IF passed THEN 0 ELSE o.failRun,
         failFrom |-> IF failed /\ o.failRun = 0 THEN b.state ELSE o.failFrom,
         succRun |-> IF passed THEN o.succRun + 1 ELSE 0,
         succFrom |-> IF passed /\ o.succRun = 0 THEN e.b.state ELSE o.succFrom,
         trials |-> IF passed /\ e.b.state = "HALF_OPEN" THEN base + 1 ELSE base]

ObserveForce(o, b, op) ==
    [o EXCEPT !.last = [NoCall EXCEPT !.op = op, !.pre = b.state],
              !.failRun = 0, !.succRun = 0]

\* The values of the other parts' variables while a part runs alone.
SessIdle ==
    /\ agent = <<>>
    /\ sessions = <<>>
    /\ heap = <<>>
    /\ calls = <<>>
    /\ outbox = <<>>
    /\ store = <<>>
    /\ step = <<>>

PureIdle == <<>>

CBInit ==
    /\ cb \in {NewBreaker(c) : c \in CircuitBreakerConfig}
    /\ now = 1
    /\ obs = ObsInit
    /\ SessIdle
    /\ pure = PureIdle

\* One execute call, entered and left at the same clock reading: time that
\* passes during the operation is time that passed before the call (CBTick),
\* since the only reading taken before the operation decides whether it runs.
CBExecute ==
    \E op \in OpOutcomes, fb \in FbOutcomes :
        /\ cb.metrics.total_requests < MaxCalls
        /\ LET r == Execute(cb, op, fb, now, now)
           IN  /\ cb' = r.b
               /\ obs' = ObserveExecute(obs, cb, op, fb, now, r)
        /\ UNCHANGED <<now, sessVars, pure>>

CBForceOpen ==
    /\ cb' = ForceOpen(cb, now)
    /\ obs' = ObserveForce(obs, cb, "force_open")
    /\ UNCHANGED <<now, sessVars, pure>>

CBForceClose ==
    /\ cb' = ForceClose(cb)
    /\ obs' = ObserveForce(obs, cb, "force_close")
    /\ UNCHANGED <<now, sessVars, pure>>

CBTick ==
    /\ now < MaxTime
    /\ now' = now + 1
    /\ UNCHANGED <<cb, obs, sessVars, pure>>

CBNext == CBExecute \/ CBForceOpen \/ CBForceClose \/ CBTick

SpecCB == CBInit /\ [][CBNext]_vars

(***************************************************************************)
(* Claims about the breaker, checked under SpecCB.                         *)
(***************************************************************************)
Pieces(msg) == {msg[i] : i \in 1..Len(msg)}

FailedAttempt == obs.last.op = "execute" /\ obs.last.attempted /\ obs.last.outcome # "ok"

\* C1: a CLOSED breaker with failure_threshold N >= 1 is OPEN, with its open
\* timestamp recorded, after N execute calls in a row whose operation fails
\* (no successful call, force_open or force_close between them).
C1_OpenAfterThresholdFailures ==
    (obs.failFrom = "CLOSED" /\ obs.failRun >= cb.config.failure_threshold)
        => /\ cb.state = "OPEN"
           /\ cb.metrics.circuit_open_time # None
           /\ cb.metrics.circuit_open_time <= now

C1_Witness ==
    /\ obs.failFrom = "CLOSED"
    /\ cb.config.failure_threshold = MaxThreshold
    /\ obs.failRun = MaxThreshold
    /\ FailedAttempt
    /\ cb.state = "OPEN"

\* C2: from every reachable HALF_OPEN state, one execute call whose operation
\* fails leaves the breaker OPEN with the half-open trial counter at zero.
C2_HalfOpenFailureReopens ==
    (FailedAttempt /\ obs.last.pre = "HALF_OPEN")
        => (cb.state = "OPEN" /\ cb.half_open_count = 0)

\* C3: K = half_open_requests consecutive successful execute calls that start
\* in HALF_OPEN leave the breaker CLOSED with consecutive-failure count 0, an
\* empty failure window, trial counter 0 and no open timestamp; after a
\* successful trial that brings the trials since HALF_OPEN was entered to fewer
\* than K the breaker is still HALF_OPEN.
C3_ClosesAfterQuota ==
    /\ (obs.succFrom = "HALF_OPEN" /\ obs.succRun >= cb.config.half_open_requests)
          => /\ cb.state = "CLOSED"
             /\ cb.metrics.consecutive_failures = 0
             /\ cb.failures = 0
             /\ cb.failure_window = <<>>
             /\ cb.half_open_count = 0
             /\ cb.metrics.circuit_open_time = None
    /\ (/\ obs.last.op = "execute" /\ obs.last.attempted /\ obs.last.outcome = "ok"
        /\ obs.last.at = "HALF_OPEN"
        /\ obs.trials < cb.config.half_open_requests)
          => cb.state = "HALF_OPEN"

C3_Witness ==
    /\ obs.succFrom = "HALF_OPEN"
    /\ cb.config.half_open_requests = MaxQuota
    /\ obs.succRun = MaxQuota
    /\ obs.last.op = "execute"
    /\ cb.state = "CLOSED"

\* C4: execute on an OPEN breaker at least reset_timeout after it opened moves
\* it to HALF_OPEN with the trial counter at zero and attempts the operation
\* in the same call; a success of that call is the first counted trial.
C4_ResetAttemptIsFirstTrial ==
    (obs.last.op = "execute" /\ obs.last.pre = "OPEN" /\ obs.last.elapsed)
        => /\ obs.last.attempted
           /\ obs.last.at = "HALF_OPEN"
           /\ obs.last.outcome = "ok" =>
                 /\ obs.trials = 1
                 /\ IF cb.config.half_open_requests = 1
                    THEN cb.state = "CLOSED" /\ cb.half_open_count = 0
                    ELSE cb.state = "HALF_OPEN" /\ cb.half_open_count = 1
           /\ obs.last.outcome # "ok" =>
                 /\ cb.half_open_count = 0
                 /\ cb.state \in {"OPEN", "HALF_OPEN"}

C4_Witness ==
    /\ obs.last.op = "execute" /\ obs.last.pre = "OPEN" /\ obs.last.elapsed
    /\ obs.last.outcome = "ok"
    /\ cb.state = "HALF_OPEN"
    /\ cb.half_open_count = 1

\* C5: execute on an OPEN breaker before reset_timeout has elapsed since it
\* opened never invokes the operation, leaves the state OPEN and returns the
\* fallback's result; so does the call that follows failure_threshold
\* consecutive timed-out calls.
C5_OpenFailsFast ==
    (obs.last.op = "execute" /\ obs.last.pre = "OPEN" /\ ~obs.last.elapsed)
        => /\ ~obs.last.attempted
           /\ obs.last.fbInvoked
           /\ cb.state = "OPEN"
           /\ cb.metrics.success_requests + cb.metrics.failure_requests
                  < cb.metrics.total_requests
           /\ obs.last.fb = "ok" => obs.last.result = Returned("fallback")

C5_Witness ==
    /\ obs.last.op = "execute" /\ obs.last.pre = "OPEN" /\ ~obs.last.elapsed
    /\ obs.failFrom = "CLOSED"
    /\ obs.failRun = cb.config.failure_threshold
    /\ cb.metrics.timeouts = cb.config.failure_threshold
    /\ cb.config.failure_threshold = MaxThreshold
    /\ obs.last.result = Returned("fallback")

\* C6: every execute call whose operation fails (exception or timeout) while
\* the fallback succeeds returns the fallback's result and raises nothing, in
\* any breaker state and at any failure count.
C6_FailureContained ==
    (FailedAttempt /\ obs.last.fb = "ok")
        => obs.last.result = Returned("fallback")

SessionOrder == <<"s1", "s2", "s3">>
SessionIds == {SessionOrder[k] : k \in 1..MaxSessions}

\* A session id no session is ever created under
UnknownIds == {"s0"}

\* A user response: its text followed by `pad` further one-letter words
\* ("q"), which add to the word count and to no keyword.
NoResponse == [text |-> <<>>, pad |-> None]
Responses ==
    {[text |-> <<"u", "s", "e", "r", " ", "s", "e", "g", "m", "e", "n", "t", "s">>, pad |-> 0],
     [text |-> <<"M", "y", " ", "r", "e", "c", "o", "m", "m", "e", "n", "d", "a", "t", "i", "o", "n">>, pad |-> 0],
     [text |-> <<"m", "e", "a", "s", "u", "r", "e", " ", "s", "u", "c", "c", "e", "s", "s">>, pad |-> 0],
     [text |-> <<"b", "u", "i", "l", "d", " ", "t", "h", "e", " ", "a", "r", "c", "h", "i", "t", "e", "c", "t", "u", "r", "e", " ", "f", "i", "r", "s", "t">>, pad |-> 0]}

Whitespace == {" "}

\* len(response.split())
RECURSIVE WordCount(_)
WordCount(text) ==
    IF text = <<>> THEN 0
    ELSE IF Head(text) \in Whitespace THEN WordCount(Tail(text))
    ELSE IF Len(text) = 1 \/ text[2] \in Whitespace THEN 1 + WordCount(Tail(text))
    ELSE WordCount(Tail(text))

ResponseWords(response) == WordCount(response.text) + response.pad

\* dict.update
DictUpdate(d, e) ==
    [k \in DOMAIN d \cup DOMAIN e |-> IF k \in DOMAIN e THEN e[k] ELSE d[k]]

\* dict.get(key, default)
DictGet(d, key, default) == IF key \in DOMAIN d THEN d[key] ELSE default

(***************************************************************************)
(* agents/python/orchestrator_agent.py: ComplexityAssessor,                *)
(* ReasoningStrategySelector, InterventionEngine                           *)
(***************************************************************************)
AdkComplexityLevel == {"low", "medium", "high"}

\* complexity_factors and level_factors, in tenths
ComplexityFactors ==
    [k \in {"data structures & algorithms", "technical system design",
            "machine learning", "product sense", "behavioral"} |->
        CASE k = "data structures & algorithms" -> 10
          [] k = "technical system design" -> 12
          [] k = "machine learning" -> 11
          [] k = "product sense" -> 9
          [] k = "behavioral" -> 8]

LevelFactors ==
    [k \in {"L3", "L4", "L5", "L6", "L7+"} |->
        CASE k = "L3" -> 8
          [] k = "L4" -> 10
          [] k = "L5" -> 12
          [] k = "L6" -> 14
          [] k = "L7+" -> 16]

\* ComplexityAssessor.assess_initial_complexity; the score in hundredths
AssessInitialComplexity(context) ==
    LET type_score == DictGet(ComplexityFactors, context.interview_type, 10)
        level_score == DictGet(LevelFactors, context.faang_level, 10)
        complexity_score == type_score * level_score
    IN  IF complexity_score <= 90 THEN "low"
        ELSE IF complexity_score <= 120 THEN "medium"
        ELSE "high"

ComplexIndicators ==
    <<<<"a", "r", "c", "h", "i", "t", "e", "c", "t", "u", "r", "e">>, <<"s", "c", "a", "l", "a", "b", "i", "l", "i", "t", "y">>, <<"m", "i", "c", "r", "o", "s", "e", "r", "v", "i", "c", "e", "s">>, <<"d", "i", "s", "t", "r", "i", "b", "u", "t", "e", "d">>,
      <<"a", "l", "g", "o", "r", "i", "t", "h", "m">>, <<"o", "p", "t", "i", "m", "i", "z", "a", "t", "i", "o", "n">>, <<"t", "r", "a", "d", "e", "-", "o", "f", "f", "s">>, <<"c", "o", "n", "s", "t", "r", "a", "i", "n", "t", "s">>>>

\* ComplexityAssessor.assess_response_complexity
AssessResponseComplexity(response) ==
    LET word_count == ResponseWords(response)
        has_complex_concepts == ContainsAny(Lower(response.text), ComplexIndicators)
    IN  IF word_count > 200 /\ has_complex_concepts THEN "high"
        ELSE IF word_count > 100 \/ has_complex_concepts THEN "medium"
        ELSE "low"

\* strategy_map[complexity] of a key the dict does not hold: the exception
\* that leaves select_strategy in place of a strategy
KeyError == "KeyError"

\* ReasoningStrategySelector.select_strategy
SelectStrategy(complexity) ==
    CASE complexity = "low" -> "lean"
      [] complexity = "medium" -> "chain_of_thought"
      [] complexity = "high" -> "step_back"
      [] OTHER -> KeyError

SolutionKeywords == <<<<"s", "o", "l", "u", "t", "i", "o", "n">>, <<"r", "e", "c", "o", "m", "m", "e", "n", "d">>, <<"b", "u", "i", "l", "d">>, <<"i", "m", "p", "l", "e", "m", "e", "n", "t">>, <<"d", "e", "s", "i", "g", "n">>>>
UserKeywords == <<<<"u", "s", "e", "r">>, <<"c", "u", "s", "t", "o", "m", "e", "r">>, <<"p", "e", "r", "s", "o", "n", "a">>, <<"a", "u", "d", "i", "e", "n", "c", "e">>>>
RationaleKeywords ==
    <<<<"b", "e", "c", "a", "u", "s", "e">>, <<"r", "e", "a", "s", "o", "n">>, <<"w", "h", "y">>, <<"c", "h", "o", "s", "e">>, <<"d", "e", "c", "i", "d", "e", "d">>, <<"t", "r", "a", "d", "e", "-", "o", "f", "f">>>>

ContainsSolutionKeywords(text) == ContainsAny(Lower(text), SolutionKeywords)
ContainsUserKeywords(text) == ContainsAny(Lower(text), UserKeywords)
ContainsRationaleKeywords(text) == ContainsAny(Lower(text), RationaleKeywords)

\* Utterances for the gating rules: nothing, words without any keyword, and
\* each keyword as written, in capitals and inside other words
\* vague_keywords of the REQUIRE_MEASURABLE_METRICS entry of the backend's
\* intervention_rules
VagueKeywords ==
    <<<<"e", "n", "g", "a", "g", "e", "m", "e", "n", "t">>, <<"s", "u", "c", "c", "e", "s", "s">>, <<"g", "o", "o", "d">>, <<"b", "e", "t", "t", "e", "r">>, <<"i", "m", "p", "r", "o", "v", "e", "m", "e", "n", "t">>>>

GatingKeywords ==
    {SolutionKeywords[k] : k \in 1..Len(SolutionKeywords)}
        \cup {UserKeywords[k] : k \in 1..Len(UserKeywords)}
        \cup {RationaleKeywords[k] : k \in 1..Len(RationaleKeywords)}
        \cup {VagueKeywords[k] : k \in 1..Len(VagueKeywords)}
GatingResponses ==
    {[text |-> t, pad |-> 0] :
        t \in {<<>>, <<"i", "t", " ", "d", "e", "p", "e", "n", "d", "s">>}
                 \cup GatingKeywords
                 \cup {Upper(k) : k \in GatingKeywords}
                 \cup {<<"a", " ", "p", "r", "e">> \o k \o <<"s", ".">> : k \in GatingKeywords}}

\* The assessments and keyword tests of the responses, tabulated
ResponseComplexity == [r \in Responses |-> AssessResponseComplexity(r)]
HasSolutionKeywords ==
    [r \in Responses \cup GatingResponses \cup {NoResponse} |->
        ContainsSolutionKeywords(r.text)]
HasUserKeywords ==
    [r \in Responses \cup GatingResponses \cup {NoResponse} |->
        ContainsUserKeywords(r.text)]
HasRationaleKeywords ==
    [r \in Responses \cup GatingResponses \cup {NoResponse} |->
        ContainsRationaleKeywords(r.text)]
SemanticTransition_none ==
    [p \in InterviewState |-> [r \in Responses |-> NoPhase]]
SemanticTransition ==
    [p \in InterviewState |->
        [r \in Responses |-> DetectSemanticTransition(p, r.text)]]

ProblemDefinition == "Problem Definition & Structuring"
NoIntervention == [type |-> "none", context |-> <<>>, priority |-> "medium"]

\* check_gating_conditions without the score threshold of its first rule
CheckGatingConditions_unscored(session_state, scores) ==
    LET response == session_state.last_user_response
        problem_score == DictGet(scores, ProblemDefinition, 0)
    IN  IF /\ session_state.current_state = "scoping"
           /\ HasSolutionKeywords[response]
        THEN [type |-> "prevent_premature_solutioning",
              context |-> [current_score |-> problem_score, threshold |-> 30],
              priority |-> "medium"]
        ELSE IF /\ session_state.current_state = "analysis"
                /\ ~HasUserKeywords[response]
        THEN [type |-> "ensure_user_focus",
              context |-> [missing_user_focus |-> TRUE],
              priority |-> "medium"]
        ELSE IF /\ session_state.current_state = "solutioning"
                /\ ~HasRationaleKeywords[response]
        THEN [type |-> "demand_prioritization_rationale",
              context |-> [missing_rationale |-> TRUE],
              priority |-> "medium"]
        ELSE NoIntervention

\* InterventionEngine.check_gating_conditions; scores in tenths
CheckGatingConditions(session_state, scores) ==
    LET response == session_state.last_user_response
        problem_score == DictGet(scores, ProblemDefinition, 0)
    IN  IF /\ session_state.current_state = "scoping"
           /\ HasSolutionKeywords[response]
           /\ problem_score < 30
        THEN [type |-> "prevent_premature_solutioning",
              context |-> [current_score |-> problem_score, threshold |-> 30],
              priority |-> "medium"]
        ELSE IF /\ session_state.current_state = "analysis"
                /\ ~HasUserKeywords[response]
        THEN [type |-> "ensure_user_focus",
              context |-> [missing_user_focus |-> TRUE],
              priority |-> "medium"]
        ELSE IF /\ session_state.current_state = "solutioning"
                /\ ~HasRationaleKeywords[response]
        THEN [type |-> "demand_prioritization_rationale",
              context |-> [missing_rationale |-> TRUE],
              priority |-> "medium"]
        ELSE NoIntervention

(***************************************************************************)
(* The heap of session objects and the handler calls in flight.  Objects   *)
(* are numbered in the order in which the dictionary and then the calls    *)
(* refer to them, so that two heaps which differ only in the numbers are   *)
(* one state.                                                              *)
(***************************************************************************)
Range(f) == {f[k] : k \in DOMAIN f}

\* The id a session that is not in the dictionary yet is given
FitsSession(sid) ==
    \/ sid \in DOMAIN sessions
    \/ /\ Cardinality(DOMAIN sessions) < MaxSessions
       /\ sid = SessionOrder[Cardinality(DOMAIN sessions) + 1]

AtKey(key, value) == [k \in {key} |-> value]

RECURSIVE Distinct(_, _)
Distinct(refs, seen) ==
    IF refs = <<>> THEN <<>>
    ELSE IF Head(refs) \in seen THEN Distinct(Tail(refs), seen)
    ELSE <<Head(refs)>> \o Distinct(Tail(refs), seen \cup {Head(refs)})

\* The objects referred to, first by the dictionary and then by the calls
Referenced(dict, cs) ==
    LET keys == SelectSeq(SessionOrder, LAMBDA sid : sid \in DOMAIN dict)
    IN  Distinct([k \in 1..Len(keys) |-> dict[keys[k]]]
                     \o [k \in 1..Len(cs) |-> cs[k].obj], {})

RemoveAt(s, i) == SubSeq(s, 1, i - 1) \o SubSeq(s, i + 1, Len(s))

NoAttempt == [made |-> FALSE, obj |-> 0, from |-> NoPhase, to |-> NoPhase,
              committed |-> FALSE]
Attempt(o, from, to, committed) ==
    [made |-> TRUE, obj |-> o, from |-> from, to |-> to, committed |-> committed]
\* A step on object o that does not call _transition_state
Untried(o) == [NoAttempt EXCEPT !.obj = o]
NoReturn == [kind |-> "pending"]
NoBefore == [current_state |-> NoPhase, previous_state |-> NoPhase,
             state_transitions |-> <<>>]
StepInit == [op |-> "none", sid |-> "", attempt |-> NoAttempt,
             before |-> NoBefore, sent |-> <<>>, tasks |-> <<>>,
             ret |-> NoReturn, n |-> 0]

\* What a handler step did: the transition it attempted, the phase fields of
\* the session as they were before the step decided on a transition, the
\* messages it queued or sent, the tasks it created and what it returned.
Step(op, sid, attempt, before, sent, tasks, ret) ==
    [op |-> op, sid |-> sid, attempt |-> attempt,
     before |-> [current_state |-> before.current_state,
                 previous_state |-> before.previous_state,
                 state_transitions |-> before.state_transitions],
     sent |-> sent, tasks |-> tasks, ret |-> ret, n |-> step.n]

\* The first step of a handler invocation that changes a session or is
\* suspended, which is counted
Enter(op, sid, attempt, before, sent, tasks, ret) ==
    [Step(op, sid, attempt, before, sent, tasks, ret) EXCEPT !.n = @ + 1]

\* The end of a handler step: objects nothing refers to any more are
\* collected and the rest renumbered.
Settle(dict, h, cs, st) ==
    LET order == Referenced(dict, cs)
        Rank(o) == CHOOSE k \in 1..Len(order) : order[k] = o
    IN  /\ Len(order) <= MaxObjects
        /\ sessions' = [sid \in DOMAIN dict |-> Rank(dict[sid])]
        /\ heap' = [k \in 1..Len(order) |-> h[order[k]]]
        /\ calls' = [k \in 1..Len(cs) |-> [cs[k] EXCEPT !.obj = Rank(@)]]
        /\ step' = [st EXCEPT !.attempt.obj =
                        IF @ \in Range(order) THEN Rank(@) ELSE 0]

(***************************************************************************)
(* agents/python/orchestrator_agent.py: OrchestratorAgent                  *)
(***************************************************************************)
\* SessionContext values given to start_interview.  resume_data is "none"
\* (None), "empty" ({}) or "data" (a dict with entries).
AdkContexts ==
    {[interview_type |-> "behavioral", faang_level |-> "L3", resume_data |-> "none"],
     [interview_type |-> "technical system design", faang_level |-> "L5",
      resume_data |-> "data"]}

\* Messages other agents send to the orchestrator; scores in tenths
AdkAgentMessages ==
    {[type |-> "context_ready", context |-> "data"],
     [type |-> "response_scored", scores |-> <<>>],
     [type |-> "response_scored", scores |-> AtKey(ProblemDefinition, 30)],
     [type |-> "question_generated"],
     [type |-> "status"]}

\* SessionState(...) as start_interview constructs it
AdkNewSession(session_id, context, complexity, reasoning_strategy) ==
    [session_id |-> session_id,
     current_state |-> "configuring",
     previous_state |-> NoPhase,
     context |-> context,
     complexity |-> complexity,
     reasoning_strategy |-> reasoning_strategy,
     state_transitions |-> <<[state |-> "configuring", trigger |-> "session_start"]>>,
     scores |-> <<>>,
     interventions |-> <<>>,
     last_user_response |-> NoResponse]

\* _serialize_session_state: asdict, with the enums as their values
SerializeSessionState(session_state) ==
    [session_id |-> session_state.session_id,
     current_state |-> session_state.current_state,
     previous_state |-> session_state.previous_state,
     context |-> session_state.context,
     complexity |-> session_state.complexity,
     reasoning_strategy |-> session_state.reasoning_strategy,
     state_transitions |-> session_state.state_transitions,
     scores |-> session_state.scores,
     interventions |-> session_state.interventions,
     last_user_response |-> session_state.last_user_response]

AdkMessage(type, to_agent, session_id, payload) ==
    [type |-> type, to_agent |-> to_agent, session_id |-> session_id,
     payload |-> payload]

\* _handle_state_entry: the messages queued on entry into `state`
HandleStateEntry(session_state, state) ==
    IF state = "analysis"
    THEN <<AdkMessage("phase_transition", "interviewer", session_state.session_id,
                      [new_phase |-> state,
                       complexity |-> session_state.complexity])>>
    ELSE IF state = "challenging"
    THEN <<AdkMessage("generate_challenge", "interviewer", session_state.session_id,
                      [complexity |-> session_state.complexity])>>
    ELSE IF state = "report_generation"
    THEN <<AdkMessage("generate_report", "synthesis", session_state.session_id,
                      [final_scores |-> session_state.scores])>>
    ELSE <<>>

\* _transition_state without its validity check
AdkTransitionState_unchecked(session_state, new_state, trigger) ==
    LET entered == [session_state EXCEPT
                        !.previous_state = session_state.current_state,
                        !.current_state = new_state,
                        !.state_transitions =
                            Append(@, [state |-> new_state, trigger |-> trigger])]
    IN  [session |-> entered, committed |-> TRUE,
         msgs |-> HandleStateEntry(entered, new_state)]

\* _transition_state, on the object self.sessions[session_id]
AdkTransitionState(session_state, new_state, trigger) ==
    IF ~CanTransition(session_state.current_state, new_state)
    THEN [session |-> session_state, committed |-> FALSE, msgs |-> <<>>]
    ELSE LET entered == [session_state EXCEPT
                             !.previous_state = session_state.current_state,
                             !.current_state = new_state,
                             !.state_transitions =
                                 Append(@, [state |-> new_state, trigger |-> trigger])]
         IN  [session |-> entered, committed |-> TRUE,
              msgs |-> HandleStateEntry(entered, new_state)]

\* _handle_context_ready: {**resume_data or {}, **context_data}
HandleContextReady(session_state, message) ==
    [session |->
        [session_state EXCEPT !.context.resume_data =
            IF @ = "data" \/ message.context = "data" THEN "data" ELSE "empty"],
     msgs |-> <<>>]

\* _handle_response_scored
HandleResponseScored(session_state, message) ==
    LET scored == [session_state EXCEPT !.scores = DictUpdate(@, message.scores)]
        intervention == CheckGatingConditions(scored, message.scores)
    IN  IF intervention.type # "none"
        THEN [session |-> [scored EXCEPT !.interventions = Append(@, intervention)],
              msgs |-> <<AdkMessage("intervention", "interviewer",
                                    scored.session_id,
                                    [type |-> intervention.type])>>]
        ELSE [session |-> scored, msgs |-> <<>>]

\* The persisted write of a suspended call lands, or fails and is logged
Persisted(c) ==
    \/ store' = DictUpdate(store, AtKey(c.snapshot.session_id, c.snapshot))
    \/ store' = store

\* start_interview up to "await self._persist_session(session_state)"
AdkStartInterview ==
    \E sid \in SessionIds, context \in AdkContexts :
        /\ agent.impl = "adk"
        /\ step.n < MaxAdkEvents
        /\ Len(calls) < MaxInflight
        /\ FitsSession(sid)
        /\ LET complexity == AssessInitialComplexity(context)
               reasoning_strategy == SelectStrategy(complexity)
               session_state ==
                   AdkNewSession(sid, context, complexity, reasoning_strategy)
               o == Len(heap) + 1
           IN  Settle(DictUpdate(sessions, AtKey(sid, o)),
                      Append(heap, session_state),
                      Append(calls,
                             [op |-> "start_interview", sid |-> sid, obj |-> o,
                              snapshot |-> SerializeSessionState(session_state),
                              complexity |-> complexity,
                              reasoning_strategy |-> reasoning_strategy]),
                      Enter("start_interview", sid, NoAttempt, NoBefore,
                           <<>>, <<>>, NoReturn))
        /\ UNCHANGED <<agent, outbox, store, cbVars, pure>>

\* start_interview from the return of _persist_session to its own return
AdkStartInterviewResume ==
    \E i \in 1..Len(calls) :
        /\ calls[i].op = "start_interview"
        /\ LET c == calls[i]
               o == sessions[c.sid]
               r == AdkTransitionState(heap[o], "scoping", "user_action")
               context == heap[c.obj].context
               parse == IF context.resume_data = "data"
                        THEN <<AdkMessage("parse_resume", "context", c.sid,
                                          [resume_data |-> context.resume_data])>>
                        ELSE <<>>
               question ==
                   <<AdkMessage("generate_scoping_question", "interviewer", c.sid,
                                [phase |-> "scoping",
                                 complexity |-> c.complexity])>>
               msgs == r.msgs \o parse \o question
           IN  /\ Len(outbox) + Len(msgs) <= MaxQueue
               /\ Persisted(c)
               /\ outbox' = outbox \o msgs
               /\ Settle(sessions, [heap EXCEPT ![o] = r.session],
                         RemoveAt(calls, i),
                         Step("start_interview", c.sid,
                              Attempt(o, heap[o].current_state, "scoping",
                                      r.committed),
                              heap[o], msgs, <<>>,
                              [kind |-> "result", success |-> TRUE,
                               initial_state |-> "scoping",
                               complexity |-> c.complexity,
                               reasoning_strategy |-> c.reasoning_strategy]))
        /\ UNCHANGED <<agent, cbVars, pure>>

\* A result that reports no failure
SessionNotFound_unreported ==
    [kind |-> "result", success |-> TRUE, error |-> "not found"]

\* The result of handle_user_response when self.sessions.get(session_id) is
\* None: the ValueError is caught and returned as the error
SessionNotFound ==
    [kind |-> "result", success |-> FALSE, error |-> "not found"]

\* handle_user_response up to "await self._persist_session(session_state)";
\* for an unknown session, to the return of the error
AdkHandleUserResponse ==
    \E sid \in SessionIds \cup UnknownIds, response \in Responses :
        /\ agent.impl = "adk"
        /\ IF sid \notin DOMAIN sessions
           THEN /\ step' = Step("handle_user_response", sid, NoAttempt, NoBefore,
                                <<>>, <<>>,
                                SessionNotFound)
                /\ UNCHANGED <<sessions, heap, calls, outbox>>
           ELSE /\ step.n < MaxAdkEvents
                /\ Len(calls) < MaxInflight
                /\ LET o == sessions[sid]
                       response_complexity == ResponseComplexity[response]
                       assessed ==
                           IF response_complexity # heap[o].complexity
                           THEN [heap[o] EXCEPT
                                    !.last_user_response = response,
                                    !.complexity = response_complexity,
                                    !.reasoning_strategy =
                                        SelectStrategy(response_complexity)]
                           ELSE [heap[o] EXCEPT !.last_user_response = response]
                       evaluate ==
                           <<AdkMessage("evaluate_response", "evaluator", sid,
                                        [current_phase |-> assessed.current_state,
                                         complexity |-> assessed.complexity])>>
                       next_state ==
                           SemanticTransition[assessed.current_state][response]
                       moves == /\ next_state # NoPhase
                                /\ CanTransition(assessed.current_state, next_state)
                       r == IF moves
                            THEN AdkTransitionState(assessed, next_state, "semantic")
                            ELSE [session |-> assessed, committed |-> FALSE,
                                  msgs |-> <<>>]
                       msgs == evaluate \o r.msgs
                   IN  /\ Len(outbox) + Len(msgs) <= MaxQueue
                       /\ outbox' = outbox \o msgs
                       /\ Settle(sessions, [heap EXCEPT ![o] = r.session],
                                 Append(calls,
                                        [op |-> "handle_user_response",
                                         sid |-> sid, obj |-> o,
                                         response |-> response,
                                         snapshot |-> SerializeSessionState(r.session),
                                         next_state |-> IF moves THEN next_state
                                                        ELSE NoPhase]),
                                 Enter("handle_user_response", sid,
                                      IF moves
                                      THEN Attempt(o, assessed.current_state,
                                                   next_state, r.committed)
                                      ELSE Untried(o),
                                      assessed, msgs, <<>>, NoReturn))
        /\ UNCHANGED <<agent, store, cbVars, pure>>

\* handle_user_response from the return of _persist_session to its own return
AdkHandleUserResponseResume ==
    \E i \in 1..Len(calls) :
        /\ calls[i].op = "handle_user_response"
        /\ LET c == calls[i]
               session_state == heap[c.obj]
           IN  /\ Persisted(c)
               /\ Settle(sessions, heap, RemoveAt(calls, i),
                         Step("handle_user_response", c.sid, NoAttempt, NoBefore,
                              <<>>, <<>>,
                              IF c.next_state # NoPhase
                              THEN [kind |-> "result",
                                    next_action |-> "transition",
                                    new_state |-> c.next_state,
                                    complexity |-> session_state.complexity]
                              ELSE [kind |-> "result",
                                    next_action |-> "continue_current_phase",
                                    current_state |-> session_state.current_state,
                                    complexity |-> session_state.complexity]))
        /\ UNCHANGED <<agent, outbox, cbVars, pure>>

\* handle_agent_message up to "await self._persist_session(session_state)";
\* for an unknown session, to its return
AdkHandleAgentMessage ==
    \E sid \in SessionIds, message \in AdkAgentMessages :
        /\ agent.impl = "adk"
        /\ IF sid \notin DOMAIN sessions
           THEN /\ step' = Step("handle_agent_message", sid, NoAttempt, NoBefore,
                                <<>>, <<>>, [kind |-> "none"])
                /\ UNCHANGED <<sessions, heap, calls, outbox>>
           ELSE /\ step.n < MaxAdkEvents
                /\ Len(calls) < MaxInflight
                /\ LET o == sessions[sid]
                       r == IF message.type = "context_ready"
                            THEN HandleContextReady(heap[o], message)
                            ELSE IF message.type = "response_scored"
                            THEN HandleResponseScored(heap[o], message)
                            ELSE [session |-> heap[o], msgs |-> <<>>]
                   IN  /\ Len(outbox) + Len(r.msgs) <= MaxQueue
                       /\ Len(r.session.interventions) <= MaxInterventions
                       /\ outbox' = outbox \o r.msgs
                       /\ Settle(sessions, [heap EXCEPT ![o] = r.session],
                                 Append(calls,
                                        [op |-> "handle_agent_message",
                                         sid |-> sid, obj |-> o,
                                         snapshot |-> SerializeSessionState(r.session)]),
                                 Enter("handle_agent_message", sid, NoAttempt,
                                      NoBefore, r.msgs, <<>>, NoReturn))
        /\ UNCHANGED <<agent, store, cbVars, pure>>

\* handle_agent_message from the return of _persist_session to its own return
AdkHandleAgentMessageResume ==
    \E i \in 1..Len(calls) :
        /\ calls[i].op = "handle_agent_message"
        /\ Persisted(calls[i])
        /\ Settle(sessions, heap, RemoveAt(calls, i),
                  Step("handle_agent_message", calls[i].sid, NoAttempt, NoBefore,
                       <<>>, <<>>, [kind |-> "none"]))
        /\ UNCHANGED <<agent, outbox, cbVars, pure>>

\* _message_processor: one pass of its loop over a queue that is not empty
AdkMessageProcessor ==
    /\ agent.impl = "adk"
    /\ outbox # <<>>
    /\ step.n < MaxAdkEvents
    /\ outbox' = <<>>
    /\ step' = Enter("message_processor", "", NoAttempt, NoBefore, <<>>, <<>>,
                    [kind |-> "none"])
    /\ UNCHANGED <<agent, sessions, heap, calls, store, cbVars, pure>>

\* Thresholds of _check_interventions, in seconds and in clock units
SilenceLimit == 30
PrematureWindow == 1

(***************************************************************************)
(* backends/interview-agents-python/agents/orchestrator.py:                *)
(* OrchestratorAgent(BaseAgent)                                            *)
(***************************************************************************)
\* _setup_state_machine: self.state_transitions
StateMachine ==
    [configuring |-> {"scoping"},
     scoping |-> {"analysis", "challenging"},
     analysis |-> {"solutioning", "challenging"},
     solutioning |-> {"metrics", "challenging"},
     metrics |-> {"challenging", "report_generation"},
     challenging |-> {"analysis", "solutioning", "report_generation"},
     report_generation |-> {"end"},
     end |-> {}]

\* InterviewState values as text
StateText ==
    [configuring |-> <<"c", "o", "n", "f", "i", "g", "u", "r", "i", "n", "g">>,
     scoping |-> <<"s", "c", "o", "p", "i", "n", "g">>,
     analysis |-> <<"a", "n", "a", "l", "y", "s", "i", "s">>,
     solutioning |-> <<"s", "o", "l", "u", "t", "i", "o", "n", "i", "n", "g">>,
     metrics |-> <<"m", "e", "t", "r", "i", "c", "s">>,
     challenging |-> <<"c", "h", "a", "l", "l", "e", "n", "g", "i", "n", "g">>,
     report_generation |-> <<"r", "e", "p", "o", "r", "t", "_", "g", "e", "n", "e", "r", "a", "t", "i", "o", "n">>,
     end |-> <<"e", "n", "d">>]

\* Keyword arguments given to initialize; resume is None or the dict's
\* years_experience
OrchContexts ==
    {[interview_type |-> <<"S", "y", "s", "t", "e", "m", " ", "D", "e", "s", "i", "g", "n">>, faang_level |-> "L6", resume |-> 4]}

FaangLevelFactors ==
    [k \in {"L3", "L4", "L5", "L6", "L7"} |->
        CASE k = "L3" -> 1 [] k = "L4" -> 2 [] k = "L5" -> 3
          [] k = "L6" -> 4 [] k = "L7" -> 5]

InterviewTypeFactors ==
    [k \in {<<"b", "e", "h", "a", "v", "i", "o", "r", "a", "l">>, <<"t", "e", "c", "h", "n", "i", "c", "a", "l">>, <<"s", "y", "s", "t", "e", "m", " ", "d", "e", "s", "i", "g", "n">>, <<"l", "e", "a", "d", "e", "r", "s", "h", "i", "p">>} |->
        CASE k = <<"b", "e", "h", "a", "v", "i", "o", "r", "a", "l">> -> 1
          [] k = <<"t", "e", "c", "h", "n", "i", "c", "a", "l">> -> 2
          [] k = <<"s", "y", "s", "t", "e", "m", " ", "d", "e", "s", "i", "g", "n">> -> 4
          [] k = <<"l", "e", "a", "d", "e", "r", "s", "h", "i", "p">> -> 3]

Min(a, b) == IF a <= b THEN a ELSE b

\* _assess_complexity
AssessComplexity_of(context) ==
    LET level_score == DictGet(FaangLevelFactors, context.faang_level, 2)
        type_score == DictGet(InterviewTypeFactors, Lower(context.interview_type), 2)
        context_score == IF context.resume # None
                         THEN Min(context.resume \div 2, 2)
                         ELSE 0
        total_score == level_score + type_score + context_score
    IN  IF total_score <= 3 THEN "low"
        ELSE IF total_score <= 5 THEN "medium"
        ELSE IF total_score <= 7 THEN "high"
        ELSE "very_high"

\* _assess_complexity, tabulated over the contexts a session is created from
ContextComplexity == [kwargs \in OrchContexts |-> AssessComplexity_of(kwargs)]
AssessComplexity(context) ==
    ContextComplexity[[interview_type |-> context.interview_type,
                       faang_level |-> context.faang_level,
                       resume |-> context.resume]]

\* common/config.py: REASONING_CONFIGS and get_reasoning_strategy
GetReasoningStrategy(complexity) ==
    IF ~agent.adaptive THEN "standard"
    ELSE CASE complexity = "low" -> "standard"
           [] complexity = "medium" -> "chain_of_thought"
           [] complexity = "high" -> "step_back"
           [] complexity = "very_high" -> "multi_agent"
           [] OTHER -> "chain_of_thought"

\* SessionContext(...) as initialize constructs it
OrchNewSession(session_id, kwargs, t) ==
    [session_id |-> session_id,
     interview_type |-> kwargs.interview_type,
     faang_level |-> kwargs.faang_level,
     resume |-> kwargs.resume,
     complexity |-> "medium",
     reasoning_strategy |-> "chain_of_thought",
     current_state |-> "configuring",
     previous_state |-> NoPhase,
     start_time |-> t,
     state_transitions |-> <<>>,
     scores |-> <<>>,
     interventions |-> <<>>,
     last_user_response |-> NoResponse,
     silence_duration |-> 0]

PrematureKeywords == <<<<"s", "o", "l", "u", "t", "i", "o", "n">>, <<"i", "m", "p", "l", "e", "m", "e", "n", "t">>, <<"b", "u", "i", "l", "d">>, <<"c", "o", "d", "e">>>>
PriorityKeywords == <<<<"p", "r", "i", "o", "r", "i", "t", "y">>, <<"i", "m", "p", "o", "r", "t", "a", "n", "t">>, <<"f", "i", "r", "s", "t">>, <<"o", "r", "d", "e", "r">>>>

\* The user responses given to _handle_user_response
OrchResponses ==
    {[text |-> <<"u", "s", "e", "r", " ", "s", "e", "g", "m", "e", "n", "t", "s">>, pad |-> 0],
     [text |-> <<"b", "u", "i", "l", "d", " ", "t", "h", "e", " ", "a", "r", "c", "h", "i", "t", "e", "c", "t", "u", "r", "e", " ", "f", "i", "r", "s", "t">>, pad |-> 0]}

\* confusion_keywords of the HANDLE_SILENCE_OR_CONFUSION entry of
\* intervention_rules
ConfusionKeywords ==
    <<<<"I", "'", "m", " ", "n", "o", "t", " ", "s", "u", "r", "e">>, <<"I", " ", "d", "o", "n", "'", "t", " ", "u", "n", "d", "e", "r", "s", "t", "a", "n", "d">>, <<"c", "o", "n", "f", "u", "s", "e", "d">>, <<"u", "n", "c", "l", "e", "a", "r">>>>

\* Responses for _check_interventions called on its own: those of the
\* turns, and each confusion keyword as written, lowered and inside a
\* sentence
CheckResponses ==
    OrchResponses
        \cup {[text |-> t, pad |-> 0] :
                 t \in {ConfusionKeywords[k] : k \in 1..Len(ConfusionKeywords)}
                          \cup {Lower(ConfusionKeywords[k]) :
                                    k \in 1..Len(ConfusionKeywords)}
                          \cup {<<"W", "e", "l", "l", ",", " ">> \o Lower(ConfusionKeywords[k]) :
                                    k \in 1..Len(ConfusionKeywords)}}

\* The keyword tests of _check_interventions, tabulated over the responses
HasPrematureKeywords ==
    [r \in CheckResponses |-> ContainsAny(Lower(r.text), PrematureKeywords)]
HasPriorityKeywords ==
    [r \in CheckResponses |-> ContainsAny(Lower(r.text), PriorityKeywords)]
HasRationale ==
    [r \in CheckResponses |-> \/ Contains(Lower(r.text), <<"b", "e", "c", "a", "u", "s", "e">>)
                             \/ Contains(Lower(r.text), <<"r", "e", "a", "s", "o", "n">>)]

OrchIntervention(type) == [type |-> type, context |-> <<>>, priority |-> "high"]

\* _check_interventions: the directives, in the order they are appended
CheckInterventions(context, user_response, t) ==
    LET silence == IF context.silence_duration > SilenceLimit
                   THEN <<OrchIntervention("handle_silence_or_confusion")>>
                   ELSE <<>>
        premature ==
            IF /\ context.current_state \in {"scoping", "analysis"}
               /\ HasPrematureKeywords[user_response]
               /\ t - context.start_time < PrematureWindow
            THEN <<OrchIntervention("prevent_premature_solutioning")>>
            ELSE <<>>
        rationale ==
            IF /\ context.current_state = "solutioning"
               /\ HasPriorityKeywords[user_response]
               /\ ~HasRationale[user_response]
            THEN <<OrchIntervention("demand_prioritization_rationale")>>
            ELSE <<>>
    IN  silence \o premature \o rationale

OrchMessage(to_agent, type, payload, priority) ==
    [to_agent |-> to_agent, type |-> type, payload |-> payload,
     priority |-> priority]

AgentsToNotify == <<"context", "interviewer", "evaluator", "synthesis">>

\* _notify_state_change: the send_message tasks it hands to asyncio.gather
NotifyStateChange(context, old_state, new_state) ==
    [k \in 1..Len(AgentsToNotify) |->
        OrchMessage(AgentsToNotify[k], "notification",
                    [event |-> "state_change",
                     old_state |-> old_state,
                     new_state |-> new_state,
                     complexity |-> context.complexity,
                     reasoning_strategy |-> context.reasoning_strategy],
                    "high")]

\* _initialize_agents: the send_message tasks it hands to asyncio.gather
InitializeAgents(context) ==
    [k \in 1..Len(AgentsToNotify) |->
        OrchMessage(AgentsToNotify[k], "request",
                    [action |-> "initialize_session",
                     session_id |-> context.session_id,
                     complexity |-> context.complexity,
                     reasoning_strategy |-> context.reasoning_strategy],
                    "normal")]

\* _transition_state without its validation
OrchTransitionState_unchecked(context, new_state, trigger) ==
    LET old_state == context.current_state
        entered == [context EXCEPT
                       !.previous_state = old_state,
                       !.current_state = new_state,
                       !.state_transitions =
                           Append(@, [from_state |-> old_state,
                                      to_state |-> new_state,
                                      trigger |-> trigger])]
    IN  [session |-> entered, committed |-> TRUE,
         tasks |-> NotifyStateChange(entered, old_state, new_state)]

\* _transition_state up to the gather of _notify_state_change
OrchTransitionState(context, new_state, trigger) ==
    LET old_state == context.current_state
    IN  IF new_state \notin StateMachine[old_state]
        THEN [session |-> context, committed |-> FALSE, tasks |-> <<>>]
        ELSE LET entered == [context EXCEPT
                                !.previous_state = old_state,
                                !.current_state = new_state,
                                !.state_transitions =
                                    Append(@, [from_state |-> old_state,
                                               to_state |-> new_state,
                                               trigger |-> trigger])]
             IN  [session |-> entered, committed |-> TRUE,
                  tasks |-> NotifyStateChange(entered, old_state, new_state)]

\* What the model replies to the state analysis prompt
AIReplies ==
    {<<"s", "t", "a", "y">>, <<"C", "h", "a", "l", "l", "e", "n", "g", "i", "n", "g">>, <<"a", "n", "a", "l", "y", "s", "i", "s", " ", "o", "r", " ", "s", "o", "l", "u", "t", "i", "o", "n", "i", "n", "g">>,
     <<"r", "e", "p", "o", "r", "t", "_", "g", "e", "n", "e", "r", "a", "t", "i", "o", "n">>, <<" ", "I", " ", "r", "e", "c", "o", "m", "m", "e", "n", "d", " ", "m", "e", "t", "r", "i", "c", "s", " ">>}

\* str.strip()
RECURSIVE StripLeft(_)
StripLeft(s) ==
    IF s # <<>> /\ Head(s) \in Whitespace THEN StripLeft(Tail(s)) ELSE s
RECURSIVE StripRight(_)
StripRight(s) ==
    IF s # <<>> /\ s[Len(s)] \in Whitespace
    THEN StripRight(SubSeq(s, 1, Len(s) - 1))
    ELSE s
Strip(s) == StripRight(StripLeft(s))

\* _determine_next_state from the model's reply on: the first state, in enum
\* order, named in the reply and adjacent to the current state
ParseStateAnalysis_of(current_state, reply) ==
    LET result == Lower(Strip(reply))
        candidates == {k \in 1..Len(InterviewStateOrder) :
                          /\ Contains(result, StateText[InterviewStateOrder[k]])
                          /\ InterviewStateOrder[k] \in StateMachine[current_state]}
    IN  IF candidates = {} THEN NoPhase
        ELSE InterviewStateOrder[CHOOSE k \in candidates :
                                     \A j \in candidates : k <= j]

\* The same, tabulated over the states and the replies
StateAnalysis ==
    [p \in InterviewState |->
        [reply \in AIReplies \cup {<<>>} |-> ParseStateAnalysis_of(p, reply)]]
ParseStateAnalysis(context, reply) == StateAnalysis[context.current_state][reply]

\* BaseAgent.send_message for a batch of messages: each is stamped with the
\* session the agent was last initialized for and stored, or its store fails
\* and send_message returns False.  `lost` are the positions that fail:
\* any of them.
SendPatterns(n) == SUBSET (1..n)
Stamp(message) ==
    [to_agent |-> message.to_agent, type |-> message.type,
     payload |-> message.payload, priority |-> message.priority,
     session_id |-> agent.session_id]
RECURSIVE Stored(_, _, _)
Stored(messages, lost, k) ==
    IF k > Len(messages) THEN <<>>
    ELSE (IF k \in lost THEN <<>> ELSE <<Stamp(messages[k])>>)
             \o Stored(messages, lost, k + 1)
SendMessages(messages, lost) == Stored(messages, lost, 1)

\* BaseAgent.initialize and OrchestratorAgent.initialize
OrchInitialize ==
    \E sid \in SessionIds, kwargs \in OrchContexts :
        /\ agent.impl = "backend"
        /\ step.n < MaxOrchEvents
        /\ FitsSession(sid)
        /\ agent' = [agent EXCEPT !.session_id = sid]
        /\ Settle(DictUpdate(sessions, AtKey(sid, Len(heap) + 1)),
                  Append(heap, OrchNewSession(sid, kwargs, now)),
                  calls,
                  Enter("initialize", sid, NoAttempt, NoBefore, <<>>, <<>>,
                       [kind |-> "none"]))
        /\ UNCHANGED <<outbox, store, cbVars, pure>>

\* Request types: two with a handler in the table and one without
RequestTypes == {"start_interview", "state_transition", "pause"}

\* process_request: the session check, then the construction of the handler
\* table, which reads an attribute the class does not define
OrchProcessRequest ==
    \E sid \in SessionIds \cup UnknownIds, type \in RequestTypes :
        /\ agent.impl = "backend"
        /\ step' = Step("process_request", sid, NoAttempt, NoBefore, <<>>, <<>>,
                        IF sid \notin DOMAIN sessions
                        THEN [kind |-> "result",
                              error |-> "Invalid or missing session_id"]
                        ELSE [kind |-> "raise", error |-> "AttributeError"])
        /\ UNCHANGED <<agent, sessions, heap, calls, outbox, store, cbVars, pure>>

\* A gather that stops at the first failed send and lets it propagate: the
\* call ends there
OrchRunTasks_failfast ==
    \E i \in 1..Len(calls) :
        /\ calls[i].op \in {"_start_interview", "_handle_user_response",
                            "_end_interview"}
        /\ calls[i].tasks # <<>>
        /\ \E lost \in SendPatterns(Len(calls[i].tasks)) :
               IF lost = {}
               THEN /\ step' = Step(calls[i].op, calls[i].sid, NoAttempt, NoBefore,
                                    SendMessages(calls[i].tasks, lost),
                                    calls[i].tasks, NoReturn)
                    /\ calls' = [calls EXCEPT ![i].tasks = <<>>]
                    /\ UNCHANGED <<sessions, heap>>
               ELSE Settle(sessions, heap, RemoveAt(calls, i),
                           Step(calls[i].op, calls[i].sid, NoAttempt, NoBefore,
                                <<>>, <<>>,
                                [kind |-> "raise", error |-> "Exception"]))
        /\ UNCHANGED <<agent, outbox, store, cbVars, pure>>

\* The tasks of a suspended call's gather run to completion
\* (return_exceptions=True): every message is sent or its send fails
OrchRunTasks ==
    \E i \in 1..Len(calls) :
        /\ calls[i].op \in {"_start_interview", "_handle_user_response",
                            "_end_interview"}
        /\ calls[i].tasks # <<>>
        /\ \E lost \in SendPatterns(Len(calls[i].tasks)) :
               step' = Step(calls[i].op, calls[i].sid, NoAttempt, NoBefore,
                            SendMessages(calls[i].tasks, lost),
                            calls[i].tasks, NoReturn)
        /\ calls' = [calls EXCEPT ![i].tasks = <<>>]
        /\ UNCHANGED <<agent, sessions, heap, outbox, store, cbVars, pure>>

\* A suspended call whose awaited gather or reply is complete
Resumes(i, op, pc) ==
    /\ calls[i].op = op
    /\ calls[i].pc = pc
    /\ calls[i].tasks = <<>>

\* _start_interview up to the first gather it awaits
OrchStartInterview ==
    \E sid \in DOMAIN sessions :
        /\ agent.impl = "backend"
        /\ step.n < MaxOrchEvents
        /\ Len(calls) < MaxInflight
        /\ LET o == sessions[sid]
               complexity == AssessComplexity(heap[o])
               assessed == [heap[o] EXCEPT
                               !.complexity = complexity,
                               !.reasoning_strategy = GetReasoningStrategy(complexity)]
               r == OrchTransitionState(assessed, "scoping", "interview_start")
               tasks == IF r.committed THEN r.tasks
                        ELSE InitializeAgents(r.session)
           IN  /\ Len(r.session.state_transitions) <= MaxTransitions
               /\ Settle(sessions, [heap EXCEPT ![o] = r.session],
                         Append(calls,
                                [op |-> "_start_interview", sid |-> sid, obj |-> o,
                                 pc |-> IF r.committed THEN "notify"
                                        ELSE "initialize",
                                 tasks |-> tasks]),
                         Enter("_start_interview", sid,
                              Attempt(o, assessed.current_state, "scoping",
                                      r.committed),
                              assessed, <<>>, tasks, NoReturn))
        /\ UNCHANGED <<agent, outbox, store, cbVars, pure>>

\* _start_interview after _transition_state: _initialize_agents
OrchStartInterviewInitialize ==
    \E i \in 1..Len(calls) :
        /\ Resumes(i, "_start_interview", "notify")
        /\ LET tasks == InitializeAgents(heap[calls[i].obj])
           IN  /\ calls' = [calls EXCEPT ![i].pc = "initialize",
                                         ![i].tasks = tasks]
               /\ step' = Step("_start_interview", calls[i].sid, NoAttempt,
                               NoBefore, <<>>, tasks, NoReturn)
        /\ UNCHANGED <<agent, sessions, heap, outbox, store, cbVars, pure>>

\* _start_interview after _initialize_agents: the result
OrchStartInterviewReturn ==
    \E i \in 1..Len(calls) :
        /\ Resumes(i, "_start_interview", "initialize")
        /\ LET context == heap[calls[i].obj]
           IN  Settle(sessions, heap, RemoveAt(calls, i),
                      Step("_start_interview", calls[i].sid, NoAttempt, NoBefore,
                           <<>>, <<>>,
                           [kind |-> "result", success |-> TRUE,
                            session_id |-> context.session_id,
                            state |-> context.current_state,
                            complexity |-> context.complexity,
                            reasoning_strategy |-> context.reasoning_strategy]))
        /\ UNCHANGED <<agent, outbox, store, cbVars, pure>>

\* _apply_intervention without its append: the directives are only sent
ApplyInterventions_unrecorded(context, interventions) ==
    [session |-> context,
     messages |-> [k \in 1..Len(interventions) |->
                      OrchMessage("interviewer", "notification",
                                  [intervention |-> interventions[k]],
                                  interventions[k].priority)]]

\* _apply_intervention for each directive: it is appended and sent
ApplyInterventions(context, interventions) ==
    [session |-> [context EXCEPT !.interventions = @ \o interventions],
     messages |-> [k \in 1..Len(interventions) |->
                      OrchMessage("interviewer", "notification",
                                  [intervention |-> interventions[k]],
                                  interventions[k].priority)]]

\* The requests _handle_user_response hands to asyncio.gather
ResponseTasks(context, user_response) ==
    <<OrchMessage("context", "request",
                  [action |-> "update_context", user_response |-> user_response,
                   current_state |-> context.current_state], "normal"),
      OrchMessage("evaluator", "request",
                  [action |-> "evaluate_response", user_response |-> user_response,
                   state |-> context.current_state,
                   complexity |-> context.complexity], "normal"),
      OrchMessage("interviewer", "request",
                  [action |-> "generate_followup", user_response |-> user_response,
                   state |-> context.current_state,
                   complexity |-> context.complexity,
                   reasoning_strategy |-> context.reasoning_strategy], "normal")>>

ResponseResult(context) ==
    [kind |-> "result", success |-> TRUE, state |-> context.current_state,
     processing |-> "agents_notified"]

\* _handle_user_response up to the gather of its three requests, or to its
\* return when an intervention applies
OrchHandleUserResponse ==
    \E sid \in DOMAIN sessions, user_response \in OrchResponses :
        /\ agent.impl = "backend"
        /\ step.n < MaxOrchEvents
        /\ LET o == sessions[sid]
               context == [heap[o] EXCEPT !.last_user_response = user_response,
                                          !.silence_duration = 0]
               interventions == CheckInterventions(context, user_response, now)
               applied == ApplyInterventions(context, interventions)
               tasks == ResponseTasks(context, user_response)
           IN  IF interventions # <<>>
               THEN /\ Len(applied.session.interventions) <= MaxInterventions
                    /\ heap' = [heap EXCEPT ![o] = applied.session]
                    /\ \E lost \in SendPatterns(Len(applied.messages)) :
                           step' = Enter("_handle_user_response", sid, Untried(o),
                                        context,
                                        SendMessages(applied.messages, lost), <<>>,
                                        [kind |-> "result", success |-> TRUE,
                                         interventions |-> interventions,
                                         state |-> context.current_state])
                    /\ UNCHANGED <<sessions, calls>>
               ELSE /\ Len(calls) < MaxInflight
                    /\ Settle(sessions, [heap EXCEPT ![o] = context],
                              Append(calls,
                                     [op |-> "_handle_user_response", sid |-> sid,
                                      obj |-> o, pc |-> "dispatch",
                                      tasks |-> tasks]),
                              Enter("_handle_user_response", sid, Untried(o),
                                   context, <<>>, tasks, NoReturn))
        /\ UNCHANGED <<agent, outbox, store, cbVars, pure>>

\* _handle_user_response after the gather: _determine_next_state up to its
\* await of the model, or to the return when there is no model
OrchHandleUserResponseAnalyze ==
    \E i \in 1..Len(calls) :
        /\ Resumes(i, "_handle_user_response", "dispatch")
        /\ IF agent.model
           THEN /\ calls' = [calls EXCEPT ![i].pc = "analyze"]
                /\ step' = Step("_handle_user_response", calls[i].sid, NoAttempt,
                                NoBefore, <<>>, <<>>, NoReturn)
                /\ UNCHANGED <<sessions, heap>>
           ELSE Settle(sessions, heap, RemoveAt(calls, i),
                       Step("_handle_user_response", calls[i].sid, NoAttempt,
                            NoBefore, <<>>, <<>>,
                            ResponseResult(heap[calls[i].obj])))
        /\ UNCHANGED <<agent, outbox, store, cbVars, pure>>

\* _handle_user_response from the model's reply (or its failure) to the
\* gather of _notify_state_change, or to the return when nothing is committed
OrchHandleUserResponseDecide ==
    \E i \in 1..Len(calls), reply \in AIReplies \cup {<<>>}, failed \in BOOLEAN :
        /\ Resumes(i, "_handle_user_response", "analyze")
        /\ failed => reply = <<>>
        /\ LET o == calls[i].obj
               context == heap[o]
               next_state == IF failed THEN NoPhase
                             ELSE ParseStateAnalysis(context, reply)
               attempts == next_state # NoPhase /\ next_state # context.current_state
               r == IF attempts
                    THEN OrchTransitionState(context, next_state, "semantic")
                    ELSE [session |-> context, committed |-> FALSE, tasks |-> <<>>]
           IN  /\ Len(r.session.state_transitions) <= MaxTransitions
               /\ Settle(sessions, [heap EXCEPT ![o] = r.session],
                         IF r.committed
                         THEN [calls EXCEPT ![i].pc = "notify", ![i].tasks = r.tasks]
                         ELSE RemoveAt(calls, i),
                         Step("_handle_user_response", calls[i].sid,
                              IF attempts
                              THEN Attempt(o, context.current_state, next_state,
                                           r.committed)
                              ELSE Untried(o),
                              context, <<>>, r.tasks,
                              IF r.committed THEN NoReturn
                              ELSE ResponseResult(r.session)))
        /\ UNCHANGED <<agent, outbox, store, cbVars, pure>>

\* _handle_user_response after _transition_state: the result
OrchHandleUserResponseReturn ==
    \E i \in 1..Len(calls) :
        /\ Resumes(i, "_handle_user_response", "notify")
        /\ Settle(sessions, heap, RemoveAt(calls, i),
                  Step("_handle_user_response", calls[i].sid, NoAttempt, NoBefore,
                       <<>>, <<>>, ResponseResult(heap[calls[i].obj])))
        /\ UNCHANGED <<agent, outbox, store, cbVars, pure>>

\* The report request of _end_interview and its result
ReportRequest(context) ==
    <<OrchMessage("synthesis", "request",
                  [action |-> "generate_report",
                   session_id |-> context.session_id,
                   scores |-> context.scores,
                   interventions |-> context.interventions,
                   state_transitions |-> context.state_transitions], "high")>>

EndResult(context) ==
    [kind |-> "result", success |-> TRUE,
     session_id |-> context.session_id,
     final_scores |-> context.scores,
     interventions_count |-> Len(context.interventions),
     state_transitions_count |-> Len(context.state_transitions),
     complexity |-> context.complexity,
     reasoning_strategy |-> context.reasoning_strategy]

\* _end_interview up to the gather of _notify_state_change, or to its return
\* when the transition to END is not committed
OrchEndInterview ==
    \E sid \in DOMAIN sessions :
        /\ agent.impl = "backend"
        /\ LET o == sessions[sid]
               r == OrchTransitionState(heap[o], "end", "user_action")
           IN  /\ Len(r.session.state_transitions) <= MaxTransitions
               /\ IF r.committed
                  THEN /\ step.n < MaxOrchEvents
                       /\ Len(calls) < MaxInflight
                       /\ Settle(sessions, [heap EXCEPT ![o] = r.session],
                                 Append(calls,
                                        [op |-> "_end_interview", sid |-> sid,
                                         obj |-> o, pc |-> "notify",
                                         tasks |-> r.tasks]),
                                 Enter("_end_interview", sid,
                                      Attempt(o, heap[o].current_state, "end", TRUE),
                                      heap[o], <<>>, r.tasks, NoReturn))
                  ELSE /\ \E lost \in SendPatterns(1) :
                              step' = Step("_end_interview", sid,
                                           Attempt(o, heap[o].current_state, "end",
                                                   FALSE),
                                           heap[o],
                                           SendMessages(ReportRequest(r.session), lost),
                                           <<>>, EndResult(r.session))
                       /\ heap' = [heap EXCEPT ![o] = r.session]
                       /\ UNCHANGED <<sessions, calls>>
        /\ UNCHANGED <<agent, outbox, store, cbVars, pure>>

\* _end_interview after _transition_state: the report request and the result
OrchEndInterviewReturn ==
    \E i \in 1..Len(calls) :
        /\ Resumes(i, "_end_interview", "notify")
        /\ \E lost \in SendPatterns(1) :
               Settle(sessions, heap, RemoveAt(calls, i),
                      Step("_end_interview", calls[i].sid, Untried(calls[i].obj),
                           NoBefore,
                           SendMessages(ReportRequest(heap[calls[i].obj]), lost),
                           <<>>, EndResult(heap[calls[i].obj])))
        /\ UNCHANGED <<agent, outbox, store, cbVars, pure>>

\* Messages other agents send to the orchestrator; scores in tenths
OrchAgentMessages ==
    {[type |-> "response", from_agent |-> "evaluator",
      scores |-> AtKey(ProblemDefinition, 20)],
     [type |-> "response", from_agent |-> "context", scores |-> <<>>],
     [type |-> "notification", from_agent |-> "interviewer", scores |-> <<>>],
     [type |-> "error", from_agent |-> "synthesis", scores |-> <<>>]}

\* handle_message
OrchHandleMessage ==
    \E sid \in SessionIds, message \in OrchAgentMessages :
        /\ agent.impl = "backend"
        /\ IF /\ sid \in DOMAIN sessions
              /\ message.type = "response"
              /\ message.from_agent = "evaluator"
           THEN /\ step.n < MaxOrchEvents
                /\ heap' = [heap EXCEPT ![sessions[sid]].scores =
                                            DictUpdate(@, message.scores)]
                /\ step' = Enter("handle_message", sid, NoAttempt, NoBefore,
                                 <<>>, <<>>, [kind |-> "none"])
           ELSE /\ heap' = heap
                /\ step' = Step("handle_message", sid, NoAttempt, NoBefore,
                                <<>>, <<>>, [kind |-> "none"])
        /\ UNCHANGED <<agent, sessions, calls, outbox, store, cbVars, pure>>

\* The clock advances while an orchestrator runs
SessTick ==
    /\ agent.impl = "backend"
    /\ now < MaxClock
    /\ step.n < MaxOrchEvents
    /\ now' = now + 1
    /\ step' = Enter("tick", "", NoAttempt, NoBefore, <<>>, <<>>, [kind |-> "none"])
    /\ UNCHANGED <<agent, sessions, heap, calls, outbox, store, cb, obs, pure>>

SessInit ==
    /\ agent \in {[impl |-> "adk", model |-> FALSE, adaptive |-> FALSE,
                   session_id |-> ""]}
                 \cup [impl : {"backend"}, model : BOOLEAN, adaptive : {TRUE},
                       session_id : {""}]
    /\ sessions = <<>>
    /\ heap = <<>>
    /\ calls = <<>>
    /\ outbox = <<>>
    /\ store = <<>>
    /\ step = StepInit
    /\ now = 1
    /\ cb = NewBreaker(CHOOSE c \in CircuitBreakerConfig : TRUE)
    /\ obs = ObsInit
    /\ pure = PureIdle

\* The steps of an orchestrator.  The backend's handlers are steps of their
\* own, called as methods: process_request, which would route a request to
\* them, raises before it calls any.  Steps that change a session, suspend a
\* call, empty the queue or advance the clock are counted in step.n.
SessNext ==
    \/ AdkStartInterview
    \/ AdkStartInterviewResume
    \/ AdkHandleUserResponse
    \/ AdkHandleUserResponseResume
    \/ AdkHandleAgentMessage
    \/ AdkHandleAgentMessageResume
    \/ AdkMessageProcessor
    \/ OrchInitialize
    \/ OrchProcessRequest
    \/ OrchRunTasks
    \/ OrchStartInterview
    \/ OrchStartInterviewInitialize
    \/ OrchStartInterviewReturn
    \/ OrchHandleUserResponse
    \/ OrchHandleUserResponseAnalyze
    \/ OrchHandleUserResponseDecide
    \/ OrchHandleUserResponseReturn
    \/ OrchEndInterview
    \/ OrchEndInterviewReturn
    \/ OrchHandleMessage
    \/ SessTick

SpecSession == SessInit /\ [][SessNext]_vars

(***************************************************************************)
(* Claims about the phases of a session, under SpecSession.                *)
(***************************************************************************)
\* The phase graph the running orchestrator declares
DeclaredGraph == IF agent.impl = "adk" THEN ValidTransitions ELSE StateMachine

\* The phases a session has been in, oldest first, as its history records
\* them: the ADK orchestrator records the state entered (the first record is
\* the construction in "configuring"), the backend the state left and the
\* state entered.
PhasesRecorded(session) ==
    IF agent.impl = "adk"
    THEN [k \in 1..Len(session.state_transitions) |->
             session.state_transitions[k].state]
    ELSE <<"configuring">>
             \o [k \in 1..Len(session.state_transitions) |->
                    session.state_transitions[k].to_state]

PhasesLeft(session) ==
    IF agent.impl = "adk"
    THEN [k \in 1..Len(session.state_transitions) - 1 |->
             session.state_transitions[k].state]
    ELSE [k \in 1..Len(session.state_transitions) |->
             session.state_transitions[k].from_state]

PhaseChangeTypes == {"phase_transition", "generate_challenge", "generate_report"}
IsPhaseChange(message) ==
    \/ message.type \in PhaseChangeTypes
    \/ /\ "event" \in DOMAIN message.payload
       /\ message.payload.event = "state_change"

\* C8: in every reachable state, whatever the order and interleaving of the
\* handlers, each session's current phase is one of the phases; the phases
\* its history records start at "configuring", end at the current phase and
\* move only along edges of the declared graph, each leaving the phase that
\* was current when it was committed; the previous phase is the one the last
\* transition left; no recorded transition leaves "end"; and a step that
\* commits a transition commits an edge out of the phase that was current.
C8_PhasesFollowDeclaredGraph ==
    /\ \A o \in 1..Len(heap) :
           LET session == heap[o]
               phases == PhasesRecorded(session)
               left == PhasesLeft(session)
           IN  /\ session.current_state \in InterviewState
               /\ phases[1] = "configuring"
               /\ phases[Len(phases)] = session.current_state
               /\ Len(left) = Len(phases) - 1
               /\ \A k \in 1..Len(left) :
                      /\ left[k] = phases[k]
                      /\ phases[k + 1] \in DeclaredGraph[left[k]]
                      /\ left[k] # "end"
               /\ session.previous_state =
                      IF left = <<>> THEN NoPhase ELSE left[Len(left)]
    /\ step.attempt.made /\ step.attempt.committed =>
           /\ step.attempt.to \in DeclaredGraph[step.attempt.from]
           /\ step.attempt.from # "end"
           /\ step.attempt.obj # 0 =>
                  /\ heap[step.attempt.obj].current_state = step.attempt.to
                  /\ heap[step.attempt.obj].previous_state = step.attempt.from

\* A backend session that went through four committed transitions into "end",
\* where a further attempt (out of "end") has just been refused
C8_Witness ==
    /\ agent.impl = "backend"
    /\ step.attempt.made
    /\ ~step.attempt.committed
    /\ step.attempt.from = "end"
    /\ \E o \in 1..Len(heap) :
           /\ heap[o].current_state = "end"
           /\ Len(heap[o].state_transitions) = 4

\* C9: can_transition is false for every pair of phases that is not an edge
\* of the declared graph, and a _transition_state attempt along such a pair
\* is not committed: the session keeps its current phase, its previous phase
\* and its history, and the step queues or sends no phase-change message.
C9_IllegalTransitionRefused ==
    /\ \A a \in InterviewState, b \in InterviewState :
           b \notin ValidTransitions[a] => ~CanTransition(a, b)
    /\ /\ step.attempt.made
       /\ step.attempt.to \notin DeclaredGraph[step.attempt.from]
       => /\ ~step.attempt.committed
          /\ step.attempt.obj # 0 =>
                 LET session == heap[step.attempt.obj]
                 IN  /\ session.current_state = step.before.current_state
                     /\ session.current_state = step.attempt.from
                     /\ session.previous_state = step.before.previous_state
                     /\ session.state_transitions = step.before.state_transitions
          /\ \A k \in 1..Len(step.sent) : ~IsPhaseChange(step.sent[k])
          /\ \A k \in 1..Len(step.tasks) : ~IsPhaseChange(step.tasks[k])

\* The ADK orchestrator has just refused a transition that is no edge, on a
\* session that is still in its dictionary: the second of two overlapping
\* start_interview calls for one session id asks for "scoping" again
C9_Witness ==
    /\ agent.impl = "adk"
    /\ step.op = "start_interview"
    /\ step.attempt.made
    /\ ~step.attempt.committed
    /\ step.attempt.obj # 0
    /\ step.attempt.to \notin ValidTransitions[step.attempt.from]
    /\ step.sent # <<>>

(***************************************************************************)
(* Claims about a user turn, under SpecSession.                            *)
(***************************************************************************)
\* The last record of a history names `state` as the phase entered
EntersLast(history, state) ==
    /\ history # <<>>
    /\ IF agent.impl = "adk"
       THEN history[Len(history)].state = state
       ELSE history[Len(history)].to_state = state

\* The step is the run of a turn that decides on a transition, on a session
\* object that is still referred to
TurnDecided ==
    /\ step.attempt.obj # 0
    /\ \/ agent.impl = "adk" /\ step.op = "handle_user_response"
       \/ agent.impl = "backend" /\ step.op = "_handle_user_response"

\* C11: in a user turn the session's phase changes if and only if a target
\* is detected for the utterance and the target is adjacent to the current
\* phase (ADK: detect_semantic_transition and the declared graph; backend:
\* the target _determine_next_state returns, other than the current phase);
\* then the history grows by exactly one record, into that target, and
\* otherwise the phase, the previous phase and the history are as before.
C11_TurnMovesIffDetectedAndAdjacent ==
    TurnDecided =>
        LET session == heap[step.attempt.obj]
            from == step.before.current_state
            target == IF agent.impl = "adk"
                      THEN DetectSemanticTransition(
                               from, session.last_user_response.text)
                      ELSE step.attempt.to
            moves == /\ target # NoPhase
                     /\ target \in DeclaredGraph[from]
        IN  /\ (session.current_state # from) <=> moves
            /\ moves =>
                   /\ session.current_state = target
                   /\ Len(session.state_transitions)
                          = Len(step.before.state_transitions) + 1
                   /\ SubSeq(session.state_transitions, 1,
                             Len(step.before.state_transitions))
                          = step.before.state_transitions
                   /\ EntersLast(session.state_transitions, target)
            /\ ~moves =>
                   /\ session.current_state = step.before.current_state
                   /\ session.previous_state = step.before.previous_state
                   /\ session.state_transitions = step.before.state_transitions

\* An ADK turn in "scoping" whose utterance names the user segments has just
\* moved the session to "analysis"
C11_Witness ==
    /\ agent.impl = "adk"
    /\ step.op = "handle_user_response"
    /\ step.attempt.committed
    /\ step.before.current_state = "scoping"
    /\ step.attempt.obj # 0
    /\ heap[step.attempt.obj].current_state = "analysis"

(***************************************************************************)
(* Claims about end_interview, under SpecSession.                          *)
(***************************************************************************)
\* The step is the run in which _end_interview returns, on a session object
\* that is still referred to
EndInterviewCompleted ==
    /\ agent.impl = "backend"
    /\ step.op = "_end_interview"
    /\ step.ret.kind = "result"
    /\ step.attempt.obj # 0

IsReportRequest(message) ==
    /\ message.to_agent = "synthesis"
    /\ message.type = "request"
    /\ message.payload.action = "generate_report"

\* C12: when end_interview returns for an existing session, whatever phase
\* the session was in, the session is in "end", the last record of its
\* history is a transition into "end", and the returning run has sent a
\* generate_report request to the synthesis agent.
C12_EndInterviewReachesEnd ==
    EndInterviewCompleted =>
        LET session == heap[step.attempt.obj]
        IN  /\ session.current_state = "end"
            /\ EntersLast(session.state_transitions, "end")
            /\ \E k \in 1..Len(step.sent) : IsReportRequest(step.sent[k])

\* The fields of a session the claim about ended sessions names
EndedFields(session) ==
    [current_state |-> session.current_state,
     state_transitions |-> session.state_transitions,
     scores |-> session.scores,
     interventions |-> session.interventions,
     last_user_response |-> session.last_user_response,
     complexity |-> session.complexity,
     reasoning_strategy |-> session.reasoning_strategy]

\* C13: once end_interview has returned for a session, a user-response turn
\* or an agent message handled next for that session changes none of its
\* phase, history, scores, interventions, last utterance, complexity tier and
\* reasoning strategy.
C13_EndedSessionFrozen ==
    [][(/\ EndInterviewCompleted
        /\ step.sid \in DOMAIN sessions
        /\ sessions[step.sid] = step.attempt.obj
        /\ step'.op \in {"_handle_user_response", "handle_message"}
        /\ step'.sid = step.sid
        /\ step.sid \in DOMAIN sessions')
       => EndedFields(heap'[sessions'[step.sid]]) =
              EndedFields(heap[sessions[step.sid]])]_vars

C19_UnknownSessionRejected ==
    [][(step'.sid \notin DOMAIN sessions
            /\ (AdkHandleUserResponse \/ OrchProcessRequest))
       => /\ step'.ret.kind = "result"
          /\ "error" \in DOMAIN step'.ret
          /\ agent.impl = "adk" => ~step'.ret.success
          /\ sessions' = sessions
          /\ heap' = heap
          /\ calls' = calls
          /\ outbox' = outbox
          /\ store' = store
          /\ step'.sent = <<>>
          /\ step'.tasks = <<>>]_vars

\* The call is rejected while another session exists
C19_Witness ==
    /\ agent.impl = "adk"
    /\ step.op = "handle_user_response"
    /\ step.sid \in UnknownIds
    /\ sessions # <<>>
    /\ \E o \in 1..Len(heap) : heap[o].current_state = "scoping"
    /\ step.ret.kind = "result"
    /\ "error" \in DOMAIN step.ret

(***************************************************************************)
(* Claims about the dispatch of a turn's requests, under SpecSession.      *)
(***************************************************************************)
\* C20: the update_context, evaluate_response and generate_followup requests
\* of a turn go through the circuit breaker: a run of the turn's gather in
\* which a send fails counts a request and a failure on the breaker.
C20_FailedDispatchRecorded ==
    [][(/\ OrchRunTasks
        /\ \E i \in 1..Len(calls) :
               /\ calls[i].op = "_handle_user_response"
               /\ calls[i].sid = step'.sid
               /\ calls[i].tasks # <<>>
               /\ calls[i].tasks[1].type = "request"
               /\ \E lost \in SendPatterns(Len(calls[i].tasks)) :
                      /\ lost # {}
                      /\ step'.sent = SendMessages(calls[i].tasks, lost))
       => /\ cb'.metrics.total_requests > cb.metrics.total_requests
          /\ cb'.metrics.failure_requests > cb.metrics.failure_requests]_vars

\* C21: the gather of a turn's three requests runs all of them whatever
\* sends fail: every request whose send did not fail is stored, the turn
\* stays suspended at the point from which it goes on to
\* _determine_next_state, the session is untouched, and whenever
\* _handle_user_response returns it returns a success result.
C21_DispatchFailuresContained ==
    [][/\ (step'.op = "_handle_user_response" /\ step'.ret.kind # "pending")
             => (step'.ret.kind = "result" /\ step'.ret.success)
       /\ (/\ step'.op = "_handle_user_response"
           /\ step'.tasks # <<>>
           /\ step'.tasks[1].type = "request"
           /\ OrchRunTasks)
          => /\ Len(step'.tasks) = 3
             /\ {step'.tasks[k].payload.action : k \in 1..3} =
                    {"update_context", "evaluate_response", "generate_followup"}
             /\ \E lost \in SUBSET (1..3) :
                    step'.sent = SendMessages(step'.tasks, lost)
             /\ step'.ret.kind = "pending"
             /\ \E i \in 1..Len(calls) :
                    /\ calls[i].op = "_handle_user_response"
                    /\ calls[i].pc = "dispatch"
                    /\ calls[i].tasks = step'.tasks
                    /\ calls' = [calls EXCEPT ![i].tasks = <<>>]
             /\ heap' = heap
             /\ sessions' = sessions]_vars

\* All three sends of a turn have failed and the turn awaits its next step
C21_Witness ==
    /\ step.op = "_handle_user_response"
    /\ Len(step.tasks) = 3
    /\ step.tasks[1].type = "request"
    /\ step.sent = <<>>
    /\ \E i \in 1..Len(calls) :
           /\ calls[i].op = "_handle_user_response"
           /\ calls[i].pc = "dispatch"
           /\ calls[i].tasks = <<>>

(***************************************************************************)
(* Claims about operations that overlap on one session, under SpecSession. *)
(***************************************************************************)
TurnOps == {"handle_user_response", "_handle_user_response"}

\* C22: while a handle_user_response call for a session is suspended between
\* its first and its last step, a step of any other operation for the same
\* session id leaves that session as it is.
C22_TurnExcludesOtherOperations ==
    [][\A i \in 1..Len(calls) :
           (/\ calls[i].op \in TurnOps
            /\ calls[i].sid \in DOMAIN sessions
            /\ sessions[calls[i].sid] = calls[i].obj
            /\ step'.sid = calls[i].sid
            /\ step'.op \notin TurnOps)
           => /\ calls[i].sid \in DOMAIN sessions'
              /\ heap'[sessions'[calls[i].sid]] = heap[calls[i].obj]]_vars

(***************************************************************************)
(* InterventionEngine.check_gating_conditions applied to sessions and      *)
(* scores drawn from bounded sets.                                         *)
(***************************************************************************)
SuccessMetrics == "Success Metrics"

\* Scores maps, in tenths: empty, or one dimension with a score around the
\* threshold
GatingScores ==
    {<<>>} \cup {AtKey(d, v) : d \in {ProblemDefinition, SuccessMetrics},
                              v \in {0, 29, 30, 31, 50}}

GatingInit ==
    /\ pure \in [session_state : [current_state : InterviewState,
                                  last_user_response :
                                      GatingResponses \cup {NoResponse}],
                 scores : GatingScores,
                 results : {<<>>}]
    /\ cb = NewBreaker(CHOOSE c \in CircuitBreakerConfig : TRUE)
    /\ now = 1
    /\ obs = ObsInit
    /\ SessIdle

\* A call that consumed its scores argument (scores.pop in place of
\* scores.get)
GatingCheck_consuming ==
    /\ Len(pure.results) < MaxChecks
    /\ pure' = [pure EXCEPT !.results =
                    Append(@, CheckGatingConditions(pure.session_state,
                                                    pure.scores)),
                            !.scores = <<>>]
    /\ UNCHANGED <<cbVars, sessVars>>

\* A call of check_gating_conditions(session_state, scores): it assigns to
\* neither argument
GatingCheck ==
    /\ Len(pure.results) < MaxChecks
    /\ pure' = [pure EXCEPT !.results =
                    Append(@, CheckGatingConditions(pure.session_state,
                                                    pure.scores))]
    /\ UNCHANGED <<cbVars, sessVars>>

GatingNext == GatingCheck

SpecGating == GatingInit /\ [][GatingNext]_vars

\* C15: for every phase, utterance and scores map (an absent score counts
\* as 0, as scores.get does), check_gating_conditions returns the
\* premature-solutioning directive iff the phase is scoping, the utterance
\* contains a solution keyword and the score for "Problem Definition &
\* Structuring" is below 3.0; the user-focus directive iff the phase is
\* analysis and the utterance contains no user keyword; the rationale
\* directive iff the phase is solutioning and the utterance contains no
\* rationale keyword.
C15_GatingRules ==
    \A k \in 1..Len(pure.results) :
        LET phase == pure.session_state.current_state
            text == pure.session_state.last_user_response.text
            score == DictGet(pure.scores, ProblemDefinition, 0)
            type == pure.results[k].type
        IN  /\ (type = "prevent_premature_solutioning") <=>
                   /\ phase = "scoping"
                   /\ ContainsSolutionKeywords(text)
                   /\ score < 30
            /\ (type = "ensure_user_focus") <=>
                   (phase = "analysis" /\ ~ContainsUserKeywords(text))
            /\ (type = "demand_prioritization_rationale") <=>
                   (phase = "solutioning" /\ ~ContainsRationaleKeywords(text))

\* A solution keyword in capitals, in scoping, with a score just below 3.0
C15_Witness ==
    /\ pure.results # <<>>
    /\ pure.session_state.current_state = "scoping"
    /\ pure.session_state.last_user_response.text = <<"B", "U", "I", "L", "D">>
    /\ pure.scores = AtKey(ProblemDefinition, 29)
    /\ pure.results[1].type = "prevent_premature_solutioning"

\* C16: for a session in metrics whose last utterance contains a vague
\* keyword and whose score for "Success Metrics" is below 3.0,
\* check_gating_conditions returns the require_measurable_metrics directive.
C16_VagueMetricsDirective ==
    \A k \in 1..Len(pure.results) :
        (/\ pure.session_state.current_state = "metrics"
         /\ ContainsAny(Lower(pure.session_state.last_user_response.text),
                        VagueKeywords)
         /\ SuccessMetrics \in DOMAIN pure.scores
         /\ pure.scores[SuccessMetrics] < 30)
            => pure.results[k].type = "require_measurable_metrics"

(***************************************************************************)
(* The first lines of _handle_user_response and its _check_interventions   *)
(* applied to sessions and responses drawn from bounded sets.              *)
(***************************************************************************)
\* Sessions as initialize creates them (silence_duration is 0.0 and is
\* assigned nowhere else but in the turn), in every phase, started now or a
\* clock unit ago
CheckSessions ==
    {[OrchNewSession("s1", kwargs, t) EXCEPT !.current_state = phase] :
        kwargs \in OrchContexts, t \in {0, 1}, phase \in DOMAIN StateMachine}

TurnCheckInit ==
    /\ pure \in [entry : CheckSessions, context : {<<>>},
                 user_response : CheckResponses,
                 interventions : {<<>>}, done : {FALSE}]
    /\ cb = NewBreaker(CHOOSE c \in CircuitBreakerConfig : TRUE)
    /\ now = 1
    /\ obs = ObsInit
    /\ SessIdle

\* _handle_user_response from its first line to the return of
\* _check_interventions
TurnCheck ==
    /\ ~pure.done
    /\ LET context == [pure.entry EXCEPT
                           !.last_user_response = pure.user_response,
                           !.silence_duration = 0]
       IN  pure' = [pure EXCEPT
                        !.context = context,
                        !.interventions =
                            CheckInterventions(context, pure.user_response, now),
                        !.done = TRUE]
    /\ UNCHANGED <<cbVars, sessVars>>

TurnCheckNext == TurnCheck

SpecTurnCheck == TurnCheckInit /\ [][TurnCheckNext]_vars

\* C17: in any phase, a turn that starts with the session's
\* silence_duration above the threshold, or whose response contains a
\* confusion keyword, yields the handle_silence_or_confusion directive from
\* its intervention check, unless the check yields the directive of another
\* rule.
C17_SilenceOrConfusionNudge ==
    pure.done =>
        ((\/ pure.entry.silence_duration > SilenceLimit
          \/ \E k \in 1..Len(ConfusionKeywords) :
                 Contains(Lower(pure.user_response.text),
                          Lower(ConfusionKeywords[k])))
            => pure.interventions # <<>>)

RegAgents == {<<"c", "o", "n", "t", "e", "x", "t">>, <<"e", "v", "a", "l", "u", "a", "t", "o", "r">>}
RegOperations == {<<"s", "e", "n", "d">>, <<"s", "e", "n", "d", "-", "r", "e", "t", "r", "y">>}

\* Configurations, with the durations scaled to clock units: the manager's
\* default_config and one a caller passes
DefaultConfig ==
    [failure_threshold |-> 2, reset_timeout |-> 2, half_open_requests |-> 2,
     monitoring_window |-> 4]
CallerConfig ==
    [failure_threshold |-> 1, reset_timeout |-> 2, half_open_requests |-> 2,
     monitoring_window |-> 4]
NoConfig == <<>>       \* config=None

\* key = f"{agent_name.value}-{operation}"
BreakerKey(agent_name, operation) == agent_name \o <<"-">> \o operation

NoBreakerCall == [op |-> "none"]

RegInit ==
    /\ pure = [breakers |-> <<>>, made |-> 0, last |-> NoBreakerCall]
    /\ cb = NewBreaker(CHOOSE c \in CircuitBreakerConfig : TRUE)
    /\ now = 1
    /\ obs = ObsInit
    /\ SessIdle

\* get_circuit_breaker that builds a breaker whenever a config is passed
GetCircuitBreaker_reconfiguring(registry, agent_name, operation, config) ==
    LET key == BreakerKey(agent_name, operation)
    IN  IF key \notin DOMAIN registry.breakers \/ config # NoConfig
        THEN LET breaker_config == IF config # NoConfig THEN config
                                   ELSE DefaultConfig
                 breaker == [id |-> registry.made + 1,
                             b |-> NewBreaker(breaker_config)]
             IN  [registry EXCEPT
                      !.breakers = DictUpdate(@, AtKey(key, breaker)),
                      !.made = @ + 1,
                      !.last = [op |-> "get_circuit_breaker", key |-> key,
                                id |-> breaker.id]]
        ELSE [registry EXCEPT
                  !.last = [op |-> "get_circuit_breaker", key |-> key,
                            id |-> registry.breakers[key].id]]

\* get_circuit_breaker: the breaker under the key, built on first use.  `id`
\* stands for the identity of the CircuitBreaker object, `made` counts the
\* objects built.
GetCircuitBreaker(registry, agent_name, operation, config) ==
    LET key == BreakerKey(agent_name, operation)
    IN  IF key \notin DOMAIN registry.breakers
        THEN LET breaker_config == IF config # NoConfig THEN config
                                   ELSE DefaultConfig
                 breaker == [id |-> registry.made + 1,
                             b |-> NewBreaker(breaker_config)]
             IN  [registry EXCEPT
                      !.breakers = DictUpdate(@, AtKey(key, breaker)),
                      !.made = @ + 1,
                      !.last = [op |-> "get_circuit_breaker", key |-> key,
                                id |-> breaker.id]]
        ELSE [registry EXCEPT
                  !.last = [op |-> "get_circuit_breaker", key |-> key,
                            id |-> registry.breakers[key].id]]

\* A call of get_circuit_breaker by any task
RegGet ==
    \E agent_name \in RegAgents, operation \in RegOperations,
       config \in {NoConfig, CallerConfig} :
        /\ \/ BreakerKey(agent_name, operation) \in DOMAIN pure.breakers
           \/ Cardinality(DOMAIN pure.breakers) < MaxBreakers
        /\ pure.made < MaxBreakers + 1
        /\ pure' = GetCircuitBreaker(pure, agent_name, operation, config)
        /\ UNCHANGED <<cbVars, sessVars>>

\* An execute call on a registered breaker, entered and left at one clock
\* reading; its operation returns or raises, its fallback returns
RegExecute ==
    \E key \in DOMAIN pure.breakers, op \in {"ok", "raise"} :
        /\ pure.breakers[key].b.metrics.total_requests < MaxRegCalls
        /\ pure' = [pure EXCEPT
                        !.breakers[key].b = Execute(@, op, "ok", now, now).b,
                        !.last = [op |-> "execute", key |-> key]]
        /\ UNCHANGED <<cbVars, sessVars>>

RegTick ==
    /\ now < MaxTime
    /\ now' = now + 1
    /\ pure' = [pure EXCEPT !.last = [op |-> "tick"]]
    /\ UNCHANGED <<cb, obs, sessVars>>

\* get_metrics: the entries get_health_summary reads; the rate is kept as
\* the pair it is the quotient of
GetMetrics(b) ==
    [state |-> b.state,
     failure_requests |-> b.metrics.failure_requests,
     total_in_window |-> IF b.metrics.total_requests > 1
                         THEN b.metrics.total_requests ELSE 1]

\* A rate test no breaker passes: failure_rate > 1
RateAboveTenth_never(metrics) == metrics.failure_requests > metrics.total_in_window

\* failure_rate > 0.1
RateAboveTenth(metrics) == 10 * metrics.failure_requests > metrics.total_in_window

\* The keys of self.breakers in the order of the dictionary (of insertion)
RECURSIVE KeysInOrder(_, _)
KeysInOrder(breakers, k) ==
    IF k = 0 THEN <<>>
    ELSE LET at == {key \in DOMAIN breakers : breakers[key].id = k}
         IN  KeysInOrder(breakers, k - 1)
                 \o (IF at = {} THEN <<>> ELSE <<CHOOSE key \in at : TRUE>>)

\* get_health_summary
GetHealthSummary(registry) ==
    LET keys == KeysInOrder(registry.breakers, registry.made)
        Metrics(key) == GetMetrics(registry.breakers[key].b)
        Failed(key) == Metrics(key).state = "OPEN"
        Degraded(key) == /\ ~Failed(key)
                         /\ \/ Metrics(key).state = "HALF_OPEN"
                            \/ RateAboveTenth(Metrics(key))
        Healthy(key) == ~Failed(key) /\ ~Degraded(key)
    IN  [healthy |-> SelectSeq(keys, Healthy),
         degraded |-> SelectSeq(keys, Degraded),
         failed |-> SelectSeq(keys, Failed)]

RegHealth ==
    /\ pure' = [pure EXCEPT !.last = [op |-> "get_health_summary",
                                      summary |-> GetHealthSummary(pure)]]
    /\ UNCHANGED <<cbVars, sessVars>>

RegNext == RegGet \/ RegExecute \/ RegTick \/ RegHealth

SpecRegistry == RegInit /\ [][RegNext]_vars

\* C23: in any order of get_circuit_breaker calls on one registry, one
\* breaker object is built per key (as many objects as keys, each key of
\* one agent and operation), every call returns the object registered under
\* its key, and a registered object is never replaced and keeps its config,
\* whatever config a later call passes; its state changes only by execute.
C23_OneBreakerPerKey ==
    /\ [](/\ pure.made = Cardinality(DOMAIN pure.breakers)
          /\ \A j, k \in DOMAIN pure.breakers :
                 pure.breakers[j].id = pure.breakers[k].id => j = k
          /\ \A a1, a2 \in RegAgents, o1, o2 \in RegOperations :
                 BreakerKey(a1, o1) = BreakerKey(a2, o2) => (a1 = a2 /\ o1 = o2)
          /\ pure.last.op = "get_circuit_breaker" =>
                 /\ pure.last.key \in DOMAIN pure.breakers
                 /\ pure.last.id = pure.breakers[pure.last.key].id)
    /\ [][\A key \in DOMAIN pure.breakers :
              /\ key \in DOMAIN pure'.breakers
              /\ pure'.breakers[key].id = pure.breakers[key].id
              /\ pure'.breakers[key].b.config = pure.breakers[key].b.config
              /\ pure'.last.op = "get_circuit_breaker"
                     => pure'.breakers[key] = pure.breakers[key]]_vars

\* A breaker built with the default config and opened by failures is
\* returned, as it is, to a call that passes another config
C23_Witness ==
    /\ pure.last.op = "get_circuit_breaker"
    /\ pure.made = 2
    /\ pure.breakers[pure.last.key].id = 1
    /\ pure.breakers[pure.last.key].b.config = DefaultConfig
    /\ pure.breakers[pure.last.key].b.state = "OPEN"
    /\ pure.breakers[pure.last.key].b.metrics.failure_requests = 2

InList(list, key) == \E k \in 1..Len(list) : list[k] = key
Occurrences(list, key) == Cardinality({k \in 1..Len(list) : list[k] = key})

\* C24: get_health_summary lists every registered key once in exactly one
\* of healthy, degraded and failed, and lists nothing else: under failed iff
\* the breaker is OPEN (so also a breaker opened by failure_threshold
\* consecutive failures), under degraded iff it is not OPEN and is HALF_OPEN
\* or has failure_requests / max(total_requests, 1) above 0.1, under healthy
\* otherwise.
C24_HealthSummaryPartition ==
    pure.last.op = "get_health_summary" =>
        LET summary == pure.last.summary
            all == summary.healthy \o summary.degraded \o summary.failed
        IN  /\ \A k \in 1..Len(all) : all[k] \in DOMAIN pure.breakers
            /\ \A key \in DOMAIN pure.breakers :
                   LET b == pure.breakers[key].b
                       total == IF b.metrics.total_requests = 0 THEN 1
                                ELSE b.metrics.total_requests
                       open == b.state = "OPEN"
                       degraded ==
                           /\ ~open
                           /\ \/ b.state = "HALF_OPEN"
                              \/ 10 * b.metrics.failure_requests > total
                   IN  /\ Occurrences(all, key) = 1
                       /\ InList(summary.failed, key) <=> open
                       /\ InList(summary.degraded, key) <=> degraded
                       /\ InList(summary.healthy, key) <=> (~open /\ ~degraded)
                       /\ (open /\ b.metrics.consecutive_failures >=
                                      b.config.failure_threshold)
                              => InList(summary.failed, key)

\* One breaker opened by its failures, another closed with a failure on it
C24_Witness ==
    /\ pure.last.op = "get_health_summary"
    /\ Len(pure.last.summary.failed) = 1
    /\ Len(pure.last.summary.degraded) = 1
    /\ LET f == pure.breakers[pure.last.summary.failed[1]].b
           d == pure.breakers[pure.last.summary.degraded[1]].b
       IN  /\ f.metrics.consecutive_failures = f.config.failure_threshold
           /\ d.state = "CLOSED"
           /\ d.metrics.failure_requests = 1

(***************************************************************************)
(* The tier-to-strategy selection of both orchestrators, called on every   *)
(* tier value a caller can pass.                                           *)
(***************************************************************************)

\* The members of the two ComplexityLevel enums, and two values that are
\* members of neither
StrategyTiers == {"low", "medium", "high", "very_high", "extreme", "none"}

\* The strategy names the two ReasoningStrategy enums define
ReasoningStrategies ==
    {"lean", "standard", "chain_of_thought", "step_back", "self_reflection",
     "multi_agent"}

StrategyInit ==
    /\ pure = [selected |-> <<>>]
    /\ agent \in {[impl |-> "adk", model |-> FALSE, adaptive |-> FALSE,
                   session_id |-> ""]}
                 \cup [impl : {"backend"}, model : {FALSE}, adaptive : BOOLEAN,
                       session_id : {""}]
    /\ sessions = <<>>
    /\ heap = <<>>
    /\ calls = <<>>
    /\ outbox = <<>>
    /\ store = <<>>
    /\ step = <<>>
    /\ cb = NewBreaker(CHOOSE c \in CircuitBreakerConfig : TRUE)
    /\ now = 1
    /\ obs = ObsInit

\* select_strategy(tier) of the ADK orchestrator, get_reasoning_strategy(tier)
\* of the backend; the outcome is kept per tier
StrategySelect ==
    \E tier \in StrategyTiers \ DOMAIN pure.selected :
        /\ pure' = [pure EXCEPT !.selected =
                       DictUpdate(@, [t \in {tier} |->
                                         IF agent.impl = "adk"
                                         THEN SelectStrategy(t)
                                         ELSE GetReasoningStrategy(t)])]
        /\ UNCHANGED <<cbVars, sessVars>>

StrategyNext == StrategySelect

SpecStrategy == StrategyInit /\ [][StrategyNext]_vars

\* C25: the selection is total over the tiers, with low -> lean,
\* medium -> chain of thought, high -> step back and very high -> self
\* reflection, and for a tier outside the enumeration it returns a strategy
\* instead of failing.
C25_StrategySelectionTotal ==
    \A tier \in DOMAIN pure.selected :
        LET selected == pure.selected[tier]
        IN  CASE tier = "low" -> selected = "lean"
              [] tier = "medium" -> selected = "chain_of_thought"
              [] tier = "high" -> selected = "step_back"
              [] tier = "very_high" -> selected = "self_reflection"
              [] OTHER -> selected \in ReasoningStrategies

\* The strategy the orchestrator at hand selects for a tier
StrategyOf(complexity) ==
    IF agent.impl = "adk" THEN SelectStrategy(complexity)
    ELSE GetReasoningStrategy(complexity)

\* C26: when handle_user_response returns for an existing session, the
\* session's tier is assess_response_complexity of the utterance of that
\* turn and its strategy is select_strategy of that tier; and in every state
\* every session's strategy is the one selected for its tier.
C26_TierFollowsUtterance ==
    /\ [](\A sid \in DOMAIN sessions :
              heap[sessions[sid]].reasoning_strategy =
                  StrategyOf(heap[sessions[sid]].complexity))
    /\ [][\A i \in 1..Len(calls) :
              (/\ calls[i].op = "handle_user_response"
               /\ calls[i].sid \in DOMAIN sessions
               /\ sessions[calls[i].sid] = calls[i].obj
               /\ calls' = RemoveAt(calls, i)
               /\ step'.op = "handle_user_response"
               /\ step'.sid = calls[i].sid
               /\ step'.ret.kind = "result")
              => LET session_state == heap[sessions[calls[i].sid]]
                 IN  /\ session_state.complexity =
                            ResponseComplexity[calls[i].response]
                     /\ session_state.reasoning_strategy =
                            SelectStrategy(session_state.complexity)]_vars

\* C27: when start_interview returns success for a session id, the session
\* exists in Scoping with previous phase Configuring and a transition record
\* into Scoping as its last; its tier is the initial
\* assessment of its context and its strategy the one selected for that tier;
\* and the phase, tier and strategy returned are the stored ones.
C27_StartEstablishesScoping ==
    (/\ step.op \in {"start_interview", "_start_interview"}
     /\ step.ret.kind = "result"
     /\ step.ret.success)
    => /\ step.sid \in DOMAIN sessions
       /\ LET s == heap[sessions[step.sid]]
              n == Len(s.state_transitions)
          IN  /\ s.current_state = "scoping"
              /\ s.previous_state = "configuring"
              /\ n > 0
              /\ IF agent.impl = "adk"
                 THEN /\ s.state_transitions[n].state = "scoping"
                      /\ s.complexity = AssessInitialComplexity(s.context)
                      /\ step.ret.initial_state = s.current_state
                 ELSE /\ s.state_transitions[n].to_state = "scoping"
                      /\ s.complexity = AssessComplexity(s)
                      /\ step.ret.state = s.current_state
              /\ s.reasoning_strategy = StrategyOf(s.complexity)
              /\ step.ret.complexity = s.complexity
              /\ step.ret.reasoning_strategy = s.reasoning_strategy

\* C28: when handle_user_response returns for an existing session and its
\* write to the session store has landed, the snapshot stored for that id has
\* the current phase, tier and strategy of the in-memory session at the
\* return, also when the turn committed a transition.
C28_StoredSnapshotMatchesSession ==
    [][\A i \in 1..Len(calls) :
          (/\ calls[i].op = "handle_user_response"
           /\ calls[i].sid \in DOMAIN sessions
           /\ calls' = RemoveAt(calls, i)
           /\ step'.op = "handle_user_response"
           /\ step'.sid = calls[i].sid
           /\ step'.ret.kind = "result"
           /\ store' = DictUpdate(store, AtKey(calls[i].sid, calls[i].snapshot)))
          => LET stored == store'[calls[i].sid]
                 session_state == heap'[sessions'[calls[i].sid]]
             IN  /\ stored.current_state = session_state.current_state
                 /\ stored.complexity = session_state.complexity
                 /\ stored.reasoning_strategy =
                        session_state.reasoning_strategy]_vars

\* The messages that tell a collaborator of the phase entered: the state
\* entry messages of the ADK orchestrator, the state_change notifications of
\* the backend
IsPhaseChangeNotice(message) ==
    \/ message.type \in {"phase_transition", "generate_challenge", "generate_report"}
    \/ message.type = "notification" /\ message.payload.event = "state_change"

\* C29: a step that commits a phase transition, to any phase, dispatches a
\* phase-change notification to each of context, interviewer, evaluator and
\* synthesis: sent within the step, or handed to the dispatch the operation
\* awaits before it returns.
C29_TransitionNotifiesAll ==
    step.attempt.committed =>
        \A k \in 1..Len(AgentsToNotify) :
            \/ \E m \in 1..Len(step.sent) :
                   /\ step.sent[m].to_agent = AgentsToNotify[k]
                   /\ IsPhaseChangeNotice(step.sent[m])
            \/ \E m \in 1..Len(step.tasks) :
                   /\ step.tasks[m].to_agent = AgentsToNotify[k]
                   /\ IsPhaseChangeNotice(step.tasks[m])

\* The trigger kinds the transition records are said to carry
TriggerKinds == {"session_start", "semantic", "ai_recommended", "manual", "timeout"}

\* C30: every transition record in the history of every session carries a
\* trigger kind of the closed set session_start, semantic, ai_recommended,
\* manual, timeout.
C30_TriggerKindsClosed ==
    \A o \in 1..Len(heap) :
        \A k \in 1..Len(heap[o].state_transitions) :
            heap[o].state_transitions[k].trigger \in TriggerKinds

\* earlier is an initial part of later
IsPrefixOf(earlier, later) ==
    /\ Len(earlier) <= Len(later)
    /\ SubSeq(later, 1, Len(earlier)) = earlier

\* C31: for each session id, across every step of the orchestrator the
\* transition history and the intervention list kept under that id only
\* grow: the earlier value is a prefix of the later one, start_interview or
\* initialize called again for the id included.
C31_HistoriesOnlyGrow ==
    [][\A sid \in DOMAIN sessions :
          /\ sid \in DOMAIN sessions'
          /\ IsPrefixOf(heap[sessions[sid]].state_transitions,
                        heap'[sessions'[sid]].state_transitions)
          /\ IsPrefixOf(heap[sessions[sid]].interventions,
                        heap'[sessions'[sid]].interventions)]_vars

\* C32: the premature-solutioning directive is not issued for a session
\* whose latest known score for "Problem Definition & Structuring" (the value
\* the session keeps for the dimension after the evaluation at hand has been
\* merged in) is at least 3.0.
C32_NoPrematureDirectiveAboveThreshold ==
    (/\ step.op = "handle_agent_message"
     /\ step.sid \in DOMAIN sessions
     /\ \E m \in 1..Len(step.sent) :
            /\ step.sent[m].type = "intervention"
            /\ step.sent[m].payload.type = "prevent_premature_solutioning")
    => DictGet(heap[sessions[step.sid]].scores, ProblemDefinition, 0) < 30

\* C40: when start_interview returns success and its write to the session
\* store has landed, the snapshot stored for the session id shows the
\* current phase and the transition history of the in-memory session.
C40_StartSnapshotMatchesSession ==
    [][\A i \in 1..Len(calls) :
          (/\ calls[i].op = "start_interview"
           /\ calls' = RemoveAt(calls, i)
           /\ step'.op = "start_interview"
           /\ step'.sid = calls[i].sid
           /\ step'.ret.kind = "result"
           /\ step'.ret.success
           /\ store' = DictUpdate(store, AtKey(calls[i].sid, calls[i].snapshot)))
          => LET stored == store'[calls[i].sid]
                 session_state == heap'[sessions'[calls[i].sid]]
             IN  /\ stored.current_state = session_state.current_state
                 /\ stored.state_transitions =
                        session_state.state_transitions]_vars

(***************************************************************************)
(* The message queue of the ADK orchestrator: _send_message appends to     *)
(* self.message_queue, the task started in __init__ runs                   *)
(* _message_processor.  A pass of the processor's loop has no await between *)
(* its test of the queue and the end of its for loop, so no _send_message  *)
(* runs within a pass; the passes are separated by asyncio.sleep.          *)
(***************************************************************************)

\* The messages handed to _send_message; seq numbers them in the order of
\* the calls (observation only)
QueueMessageTypes == {"evaluate_response", "intervention"}

QueueInit ==
    /\ outbox = <<>>
    /\ pure = [queued |-> <<>>, processed |-> <<>>, passes |-> 0]
    /\ agent = [impl |-> "adk", model |-> FALSE, adaptive |-> FALSE,
                session_id |-> ""]
    /\ sessions = <<>>
    /\ heap = <<>>
    /\ calls = <<>>
    /\ store = <<>>
    /\ step = <<>>
    /\ cb = NewBreaker(CHOOSE c \in CircuitBreakerConfig : TRUE)
    /\ now = 1
    /\ obs = ObsInit

\* _send_message(message)
SendMessage ==
    \E type \in QueueMessageTypes :
        /\ Len(pure.queued) < MaxSends
        /\ LET message == [type |-> type, seq |-> Len(pure.queued) + 1]
           IN  /\ outbox' = Append(outbox, message)
               /\ pure' = [pure EXCEPT !.queued = Append(@, message)]
        /\ UNCHANGED <<agent, sessions, heap, calls, store, step, cbVars>>

\* A pass that clears the queue before it copies it
MessageProcessorPass_clearing ==
    /\ outbox # <<>>
    /\ outbox' = <<>>
    /\ pure' = [pure EXCEPT !.passes = @ + 1]
    /\ UNCHANGED <<agent, sessions, heap, calls, store, step, cbVars>>

\* One pass of the loop of _message_processor over a queue that is not
\* empty: copy, clear, then each message of the copy in turn
MessageProcessorPass ==
    /\ outbox # <<>>
    /\ LET messages_to_process == outbox
       IN  /\ outbox' = <<>>
           /\ pure' = [pure EXCEPT !.processed = @ \o messages_to_process,
                                   !.passes = @ + 1]
    /\ UNCHANGED <<agent, sessions, heap, calls, store, step, cbVars>>

QueueNext == SendMessage \/ MessageProcessorPass

\* The processor's loop never ends and sleeps a bounded time between passes
SpecQueue == QueueInit /\ [][QueueNext]_vars /\ WF_vars(MessageProcessorPass)

\* C39: the messages processed so far followed by the messages waiting are
\* the messages queued, each once and in the order of their _send_message
\* calls; and every queued message is eventually processed.
C39_QueueProcessedOnceInOrder ==
    /\ [](pure.processed \o outbox = pure.queued)
    /\ \A k \in 1..MaxSends :
           (Len(pure.queued) >= k) ~> (Len(pure.processed) >= k /\ pure.processed[k].seq = k)

\* Two passes have processed messages and another message waits
C39_Witness ==
    /\ pure.passes = 2
    /\ Len(pure.processed) >= 2
    /\ outbox # <<>>

\* C35: a breaker that is OPEN or HALF_OPEN becomes CLOSED only by
\* force_close, or by an execute call that completes a run of at least
\* half_open_requests successful trials in HALF_OPEN with no failed trial and
\* no other call between them.
C35_ClosesOnlyByQuotaOrForce ==
    [][(cb.state \in {"OPEN", "HALF_OPEN"} /\ cb'.state = "CLOSED")
         => \/ obs'.last.op = "force_close"
            \/ /\ obs'.last.op = "execute"
               /\ obs'.succFrom = "HALF_OPEN"
               /\ obs'.succRun >= cb.config.half_open_requests]_vars

(***************************************************************************)
(* The breaker under execute calls that overlap.  execute is a coroutine:  *)
(* it runs without interruption up to the await of its operation and, when *)
(* the operation has ended or its timeout has expired, from there to its   *)
(* return.  Other execute calls, force_open, force_close and the clock     *)
(* move in between.  The operations are coroutines that end duration clock *)
(* units after they were started; a fallback returns or raises at once.    *)
(***************************************************************************)
Timeouts == {None, 0, 1}
Durations == 0..2

\* "if timeout:" is false of None and of 0
Truthy(timeout) == timeout # None /\ timeout # 0

\* An awaited operation that is not bounded by its timeout
ExecuteWithTimeout_unbounded(timeout, duration) ==
    [timedOut |-> Truthy(timeout) /\ duration > timeout,
     waited |-> duration]

\* execute, lines 89-96, with _execute_with_timeout: how long execute waits
\* for an operation of the given duration and whether asyncio.wait_for
\* raises TimeoutError
ExecuteWithTimeout(timeout, duration) ==
    IF Truthy(timeout)
    THEN [timedOut |-> duration > timeout, waited |-> Min(duration, timeout)]
    ELSE [timedOut |-> FALSE, waited |-> duration]

\* "await operation()" of an operation that never suspends runs to its end
\* before any other task does; asyncio.wait_for always suspends
Suspends(timeout, duration) == Truthy(timeout) \/ duration > 0

\* inflight: the execute calls waiting for their operation, each with the
\* outcome its wait will have; trials: operations started since the breaker
\* last turned HALF_OPEN; failed: the times of the failures since the breaker
\* was last reset
OverlapInit ==
    /\ cb \in {NewBreaker(c) : c \in CircuitBreakerConfig}
    /\ now = 1
    /\ obs = ObsInit
    /\ SessIdle
    /\ pure = [inflight |-> <<>>, trials |-> 0, failed |-> <<>>]

\* What the end of an attempted operation leaves behind (the fallback, where
\* it runs, returns)
Left(p, b, call, t) ==
    LET l == ExecuteLeave(b, call.outcome, "ok", t)
        reset == b.state = "HALF_OPEN" /\ l.b.state = "CLOSED"
    IN  [b |-> l.b,
         p |-> [p EXCEPT
                   !.trials = IF l.b.state = "HALF_OPEN" THEN @ ELSE 0,
                   !.failed = IF reset THEN <<>>
                              ELSE IF call.outcome = "ok" THEN @
                              ELSE Append(@, t)]]

\* execute up to the await of the operation (or through the fallback, or to
\* its return when the operation does not suspend)
OverlapEnter ==
    \E op \in {"ok", "raise"}, timeout \in Timeouts, duration \in Durations :
        /\ cb.metrics.total_requests < MaxCalls
        /\ Len(pure.inflight) < MaxInflight
        /\ LET e == ExecuteEnter(cb, now)
               wait == ExecuteWithTimeout(timeout, duration)
               call == [outcome |-> IF wait.timedOut THEN "timeout" ELSE op,
                        timeout |-> timeout, start |-> now,
                        waited |-> wait.waited]
               trials == IF e.b.state = "HALF_OPEN"
                         THEN (IF cb.state = "OPEN" THEN 0 ELSE pure.trials) + 1
                         ELSE 0
               started == [pure EXCEPT !.trials = trials]
           IN  IF e.path = "fallback"
               THEN cb' = e.b /\ pure' = pure
               ELSE IF Suspends(timeout, duration)
               THEN /\ cb' = e.b
                    /\ pure' = [started EXCEPT !.inflight = Append(@, call)]
               ELSE LET l == Left(started, e.b, call, now)
                    IN  cb' = l.b /\ pure' = l.p
        /\ UNCHANGED <<now, obs, sessVars>>

\* execute from the end of its wait to its return
OverlapLeave ==
    \E i \in 1..Len(pure.inflight) :
        LET call == pure.inflight[i]
            l == Left([pure EXCEPT !.inflight = RemoveAt(@, i)], cb, call, now)
        IN  /\ now = call.start + call.waited
            /\ cb' = l.b
            /\ pure' = l.p
            /\ UNCHANGED <<now, obs, sessVars>>

OverlapForceOpen ==
    /\ cb' = ForceOpen(cb, now)
    /\ pure' = [pure EXCEPT !.trials = 0]
    /\ UNCHANGED <<now, obs, sessVars>>

OverlapForceClose ==
    /\ cb' = ForceClose(cb)
    /\ pure' = [pure EXCEPT !.trials = 0, !.failed = <<>>]
    /\ UNCHANGED <<now, obs, sessVars>>

\* The clock moves once every wait that ends now has ended
OverlapTick ==
    /\ now < MaxTime
    /\ \A i \in 1..Len(pure.inflight) :
           pure.inflight[i].start + pure.inflight[i].waited > now
    /\ now' = now + 1
    /\ UNCHANGED <<cb, obs, sessVars, pure>>

OverlapNext ==
    \/ OverlapEnter
    \/ OverlapLeave
    \/ OverlapForceOpen
    \/ OverlapForceClose
    \/ OverlapTick

SpecOverlap == OverlapInit /\ [][OverlapNext]_vars

\* The execute call pure.inflight[i] returns in this step
Returns(i) == pure'.inflight = RemoveAt(pure.inflight, i)

\* C33: when execute is given a timeout and the operation does not finish
\* within it, execute returns no later than the timeout after it started the
\* operation, the timeout counter grows by one, and the breaker is otherwise
\* left exactly as a thrown failure at that moment would leave it: failures,
\* failure_requests and consecutive_failures grow by one, the time enters the
\* failure window, and the circuit is open if a threshold is reached.
C33_TimeoutBookedAsFailure ==
    [][\A i \in 1..Len(pure.inflight) :
          (Returns(i) /\ pure.inflight[i].outcome = "timeout")
          => LET call == pure.inflight[i]
                 before == cb.metrics
                 after == cb'.metrics
             IN  /\ now - call.start <= call.timeout
                 /\ after.timeouts = before.timeouts + 1
                 /\ after.failure_requests = before.failure_requests + 1
                 /\ after.consecutive_failures = before.consecutive_failures + 1
                 /\ after.success_requests = before.success_requests
                 /\ after.total_requests = before.total_requests
                 /\ cb'.failures = cb.failures + 1
                 /\ cb'.last_failure_time = now
                 /\ Len(cb'.failure_window) >= 1
                 /\ cb'.failure_window[Len(cb'.failure_window)] = now
                 /\ IF \/ after.consecutive_failures >= cb.config.failure_threshold
                       \/ Len(cb'.failure_window) >= cb.config.failure_threshold
                    THEN cb'.state = "OPEN" /\ after.circuit_open_time = now
                    ELSE cb'.state = cb.state
                 /\ [cb' EXCEPT !.metrics.timeouts = @ - 1]
                        = ExecuteLeave(cb, "raise", "ok", now).b]_vars

\* a timeout was the only failure so far and opened the circuit while another
\* call is waiting for its operation
C33_Witness ==
    /\ cb.metrics.timeouts = 1
    /\ cb.metrics.failure_requests = 1
    /\ cb.state = "OPEN"
    /\ cb.metrics.circuit_open_time = cb.last_failure_time
    /\ Len(pure.inflight) = 1

\* C36: while the breaker is HALF_OPEN, the operations started since it
\* turned HALF_OPEN number at most half_open_requests, whether or not the
\* execute calls overlap.
C36_HalfOpenTrialsBounded ==
    cb.state = "HALF_OPEN" => pure.trials <= cb.config.half_open_requests

\* get_metrics: failure_rate, as the fraction num / den
FailureRate(b) ==
    LET total_in_window == IF b.metrics.total_requests >= 1
                           THEN b.metrics.total_requests ELSE 1
    IN  [num |-> b.metrics.failure_requests, den |-> total_in_window]

\* C38: in every reachable state of a breaker whose execute calls may
\* overlap, success_requests + failure_requests <= total_requests,
\* timeouts <= failure_requests and 0 <= failure_rate <= 1; and no step
\* (reset and force_close included) lowers total_requests, success_requests,
\* failure_requests or timeouts.
C38_CountersConsistent ==
    /\ [](LET m == cb.metrics
              rate == FailureRate(cb)
          IN  /\ m.success_requests + m.failure_requests <= m.total_requests
              /\ m.timeouts <= m.failure_requests
              /\ rate.den > 0
              /\ 0 <= rate.num
              /\ rate.num <= rate.den)
    /\ [][/\ cb'.metrics.total_requests >= cb.metrics.total_requests
          /\ cb'.metrics.success_requests >= cb.metrics.success_requests
          /\ cb'.metrics.failure_requests >= cb.metrics.failure_requests
          /\ cb'.metrics.timeouts >= cb.metrics.timeouts]_vars

\* a breaker closed by force_close after a failure, no success so far, with
\* two calls waiting for their operations
C38_Witness ==
    /\ cb.state = "CLOSED"
    /\ cb.metrics.failure_requests >= 1
    /\ cb.metrics.success_requests = 0
    /\ cb.failures = 0
    /\ Len(pure.inflight) = 2

\* The failures of the list that are less than monitoring_window old at t
RecentFailures(times, b, t) ==
    LET Recent(x) == t - x < b.config.monitoring_window
    IN  SelectSeq(times, Recent)

\* C34: when a failure is booked on a CLOSED breaker, the failure window
\* afterwards holds exactly the failures (since the last reset) that are
\* less than monitoring_window old, whatever successes lie between them; the
\* breaker is OPEN if they number failure_threshold or more, and it opens
\* only if they do or the consecutive failures reach the threshold.
C34_ClosedOpensOnWindowThreshold ==
    [][(/\ cb.state = "CLOSED"
        /\ cb'.metrics.failure_requests = cb.metrics.failure_requests + 1)
       => LET recent == RecentFailures(pure'.failed, cb, now)
          IN  /\ cb'.failure_window = recent
              /\ Len(recent) >= cb.config.failure_threshold => cb'.state = "OPEN"
              /\ cb'.state = "OPEN"
                    => \/ Len(recent) >= cb.config.failure_threshold
                       \/ cb'.metrics.consecutive_failures
                              >= cb.config.failure_threshold]_vars

\* opened by the failures in the window, with a success between them
C34_Witness ==
    /\ cb.state = "OPEN"
    /\ cb.metrics.circuit_open_time = cb.last_failure_time
    /\ cb.metrics.consecutive_failures < cb.config.failure_threshold
    /\ Len(cb.failure_window) >= cb.config.failure_threshold
    /\ cb.metrics.success_requests >= 1
    /\ Len(pure.failed) = Len(cb.failure_window)

(***************************************************************************)
(* Recovery.  Callers keep calling execute and the clock keeps moving;     *)
(* operations fail or succeed as they please until, at some moment, the    *)
(* collaborator is healthy: from then on every attempted operation         *)
(* succeeds and nobody forces the circuit open.  Failures and force_open   *)
(* happen early enough for the bounded clock to pass reset_timeout after   *)
(* them; of the calls that a healthy collaborator's OPEN breaker turns     *)
(* away, one per clock reading is kept.                                    *)
(***************************************************************************)
RecoverInit ==
    /\ cb \in {NewBreaker(c) : c \in CircuitBreakerConfig}
    /\ now = 1
    /\ obs = ObsInit
    /\ SessIdle
    /\ pure = [healthy |-> FALSE, openAtHeal |-> FALSE, attempts |-> 0,
               rejectedAt |-> 0]

EarlyEnough == now + cb.config.reset_timeout <= MaxTime

\* One execute call, entered and left at one clock reading
RecoverExecute ==
    \E op \in OpOutcomes :
        LET r == Execute(cb, op, "ok", now, now)
        IN  /\ IF pure.healthy
               THEN /\ op = "ok"
                    /\ IF r.attempted THEN pure.attempts < MaxQuota + 1
                       ELSE pure.rejectedAt # now
               ELSE /\ cb.metrics.total_requests < MaxCalls
                    /\ op # "ok" => EarlyEnough
            /\ cb' = r.b
            /\ pure' = IF ~pure.healthy THEN pure
                       ELSE IF r.attempted
                       THEN [pure EXCEPT !.attempts = @ + 1]
                       ELSE [pure EXCEPT !.rejectedAt = now]
            /\ UNCHANGED <<now, obs, sessVars>>

RecoverForceOpen ==
    /\ ~pure.healthy
    /\ EarlyEnough
    /\ cb' = ForceOpen(cb, now)
    /\ UNCHANGED <<now, obs, sessVars, pure>>

\* From here on every attempted operation succeeds
RecoverHeal ==
    /\ ~pure.healthy
    /\ pure' = [pure EXCEPT !.healthy = TRUE, !.openAtHeal = cb.state = "OPEN"]
    /\ UNCHANGED <<cb, now, obs, sessVars>>

RecoverTick ==
    /\ now < MaxTime
    /\ now' = now + 1
    /\ UNCHANGED <<cb, obs, sessVars, pure>>

RecoverNext ==
    \/ RecoverExecute
    \/ RecoverForceOpen
    \/ RecoverHeal
    \/ RecoverTick

\* execute keeps being called, time keeps advancing, and the operations
\* eventually all succeed
SpecRecovery ==
    /\ RecoverInit
    /\ [][RecoverNext]_vars
    /\ WF_vars(RecoverExecute)
    /\ WF_vars(RecoverTick)
    /\ WF_vars(RecoverHeal)

\* C37: if execute keeps being called, time keeps advancing and from some
\* point on every attempted operation succeeds, a breaker that is OPEN
\* (opened by failures or by force_open) is eventually CLOSED and stays
\* CLOSED.
C37_OpenBreakerRecovers ==
    [](cb.state = "OPEN" => <>[](cb.state = "CLOSED"))

\* the breaker was OPEN when the operations began to succeed, and the trials
\* closed it
C37_Witness ==
    /\ pure.healthy
    /\ pure.openAtHeal
    /\ cb.state = "CLOSED"
    /\ pure.attempts = cb.config.half_open_requests

(***************************************************************************)
(* The pure functions applied to inputs drawn from bounded sets.           *)
(***************************************************************************)
ConfiguredPhrases ==
    UNION {UNION {{SemanticTriggers[p][i].keywords[k] :
                       k \in 1..Len(SemanticTriggers[p][i].keywords)} :
                  i \in 1..Len(SemanticTriggers[p])} :
           p \in InterviewState}

\* Utterances: nothing, or a configured phrase as written, lowered or in
\* capitals, alone or inside other words.
Utterances ==
    LET cores == {<<>>} \cup ConfiguredPhrases
                        \cup {Lower(x) : x \in ConfiguredPhrases}
                        \cup {Upper(x) : x \in ConfiguredPhrases}
        before == {<<>>, <<"o", "k", " ">>}
        after == {<<>>, <<" ", "n", "o", "w">>}
    IN  {f \o c \o g : f \in before, c \in cores, g \in after}

PureInit ==
    /\ pure \in [phase : InterviewState, utterance : Utterances,
                 done : {FALSE}, result : {NoPhase}]
    /\ cb = NewBreaker(CHOOSE c \in CircuitBreakerConfig : TRUE)
    /\ now = 1
    /\ obs = ObsInit
    /\ SessIdle

\* A call of detect_semantic_transition(phase, utterance)
PureDetect ==
    /\ ~pure.done
    /\ pure' = [pure EXCEPT !.done = TRUE,
                            !.result = DetectSemanticTransition(pure.phase, pure.utterance)]
    /\ UNCHANGED <<cbVars, sessVars>>

PureNext == PureDetect

SpecPure == PureInit /\ [][PureNext]_vars

\* C10: for every phase and every utterance that contains, compared
\* case-insensitively, a phrase configured for target P in that phase's
\* trigger table, detect_semantic_transition returns P (the first matching
\* target in table order); it returns none exactly when no configured phrase
\* of the phase matches.
C10_DetectsConfiguredPhrase ==
    pure.done =>
        LET table == SemanticTriggers[pure.phase]
            Matches(i) ==
                \E k \in 1..Len(table[i].keywords) :
                    Contains(Lower(pure.utterance), Lower(table[i].keywords[k]))
        IN  /\ \A i \in 1..Len(table) :
                   (Matches(i) /\ \A j \in 1..(i - 1) : ~Matches(j))
                       => pure.result = table[i].target
            /\ (pure.result = NoPhase) <=> ~\E i \in 1..Len(table) : Matches(i)

====
